---- MODULE Spec2Model ----
(***************************************************************************)
(* AFP structured-field codec of AdhocPrintStudio: the frame writer (_sf), *)
(* the frame parsers (_parse_structured_field, AFPValidator.parse), the    *)
(* document builders (generate_afp_document, generate_afp_with_resources), *)
(* the structure validator and the field cleaners (clean_afp,              *)
(* clean_afp_advanced).  Bytes are naturals 0..255, byte strings are       *)
(* sequences of bytes, offsets are 0-based as in the Python source.        *)
(***************************************************************************)
EXTENDS Integers, Sequences, FiniteSets, TLC

VARIABLES
    pc,             \* position of the driver (which call comes next)
    data,           \* the byte buffer being written, parsed, validated or cleaned
    sf_id,          \* type code handed to _sf
    payload,        \* payload handed to _sf
    frame_at,       \* offset in data where the written frame starts
    frame,          \* result of _parse_structured_field(data, frame_at)
    pages,          \* page list handed to a builder
    topology,       \* which builder produced data
    parse_offset,   \* AFPValidator.parse: offset
    fields,         \* AFPValidator.fields
    errors,         \* AFPValidator.errors
    warnings,       \* AFPValidator.warnings
    field_idx,      \* validate_structure: fields already seen by the depth loop
    depth,          \* validate_structure: the five depth counters
    is_valid,       \* first component of validate_afp_bytes' result
    first_errors,   \* errors of the validation of the stream before it was cleaned
    pieces,         \* indices of the pieces the hand-built stream was made from
    variant,        \* which cleaner runs: clean_afp or clean_afp_advanced
    offset,         \* cleaner scan loop: offset
    cfields,        \* clean_afp_advanced: fields collected by the first pass
    pages_to_remove,\* clean_afp_advanced: (start, end) index pairs of dropped pages
    output,         \* cleaner: output
    stats,          \* cleaner: stats
    log,            \* per parsed item of the cleaner's scan: what was decided
    pass,           \* 1 while the input is cleaned, 2 while its output is cleaned again
    first_output,   \* output of the first cleaning
    run_status,     \* JobRun.status of each run in the database ("NONE": no row)
    in_queue,       \* per run: copies of its message waiting in the queue
    received,       \* per run: how often its message was handed to the worker
    wpc,            \* the worker's position in its loop
    wrun            \* the run of the message the worker holds

frameVars == <<sf_id, payload, frame_at, frame>>
buildVars == <<pages, topology>>
validVars == <<parse_offset, fields, errors, warnings, field_idx, depth, is_valid,
               first_errors>>
cleanVars == <<pieces, variant, offset, cfields, pages_to_remove, output, stats, log, pass, first_output>>
runVars == <<run_status, in_queue, received, wpc, wrun>>
vars == <<pc, data, frameVars, buildVars, validVars, cleanVars, runVars>>

(***************************************************************************)
(* Bounds of the model.                                                    *)
(***************************************************************************)
MaxCut == 14        \* longest prefix a written frame is cut down to
MaxText == 251       \* characters in an index name or value
MaxChunks == 2      \* full chunks of 8180 bytes in a raster
MaxResync == 3      \* pieces of a stream with framing errors
MaxNest == 3        \* fields of a stream of begin and end fields
MaxRuns == 2        \* runs created
MaxDeliveries == 2  \* times the queue hands out the message of one run
MaxPages == 2       \* pages in a page list
MaxPieces == 3      \* pieces in a hand-built input stream
MaxPagePieces == 4  \* pieces in a hand-built stream of pages
MaxFields == 3      \* fields in the body of a hand-built stream for the validator
MaxWidth == 9       \* widest raster given to the image encoder
MaxHeight == 2      \* highest raster given to the image encoder

(***************************************************************************)
(* Python helpers: slices, bytes.find, struct.pack / struct.unpack.        *)
(***************************************************************************)
Min(a, b) == IF a <= b THEN a ELSE b

\* data[i] with a 0-based index; an index outside the buffer is an error.
At(s, i) == s[i + 1]

\* data[a:b] for 0 <= a, 0 <= b: clamped to the buffer, never an error.
Slice(s, a, b) ==
    LET hi == Min(b, Len(s))
    IN  IF a >= hi THEN <<>> ELSE SubSeq(s, a + 1, hi)

\* data.find(bytes([b]), start): the least index >= start holding b, or -1.
Find(s, b, start) ==
    LET hits == {i \in start..(Len(s) - 1) : At(s, i) = b}
    IN  IF hits = {} THEN -1 ELSE CHOOSE i \in hits : \A j \in hits : i <= j

\* b'x' * n
Repeat(b, n) == [i \in 1..n |-> b]

\* struct.pack('>H', n) raises struct.error for n outside 0..65535 ...
PackHRaises(n) == n < 0 \/ n > 65535

\* ... and returns the two bytes of n, high byte first, otherwise.
PackH(n) == <<n \div 256, n % 256>>

\* struct.unpack('>H', two bytes)[0]
UnpackH(two) == two[1] * 256 + two[2]

(***************************************************************************)
(* Type codes.                                                             *)
(***************************************************************************)
CC == 90    \* 0x5A

\* afp_document_generator.py (there SF_BDT, SF_EDT, ...; an identifier cannot start with SF_)
ID_BDT == <<211, 168, 198>>   \* D3 A8 C6
ID_EDT == <<211, 169, 198>>   \* D3 A9 C6
ID_BPG == <<211, 168, 175>>   \* D3 A8 AF
ID_EPG == <<211, 169, 175>>   \* D3 A9 AF
ID_TLE == <<211, 160, 144>>   \* D3 A0 90
ID_NOP == <<211, 238, 238>>   \* D3 EE EE
ID_BPS == <<211, 168, 95>>    \* D3 A8 5F
ID_EPS == <<211, 169, 95>>    \* D3 A9 5F
ID_BIO == <<211, 168, 251>>   \* D3 A8 FB
ID_EIO == <<211, 169, 251>>   \* D3 A9 FB
ID_IDD == <<211, 166, 251>>   \* D3 A6 FB
ID_IPD == <<211, 238, 251>>   \* D3 EE FB
ID_BOG == <<211, 168, 199>>   \* D3 A8 C7
ID_EOG == <<211, 169, 199>>   \* D3 A9 C7
ID_OBD == <<211, 166, 107>>   \* D3 A6 6B
ID_OBP == <<211, 172, 107>>   \* D3 AC 6B
ID_IID == <<211, 171, 251>>   \* D3 AB FB
ID_IPS == <<211, 175, 95>>    \* D3 AF 5F
ID_BAG == <<211, 168, 173>>   \* D3 A8 AD
ID_EAG == <<211, 169, 173>>   \* D3 A9 AD
ID_BRS == <<211, 168, 206>>   \* D3 A8 CE
ID_ERS == <<211, 169, 206>>   \* D3 A9 CE
ID_BNG == <<211, 168, 223>>   \* D3 A8 DF (the last of the three assignments)
ID_ENG == <<211, 169, 223>>   \* D3 A9 DF
ID_MCF == <<211, 171, 138>>   \* D3 AB 8A

\* afp_cleaner.py
ID_GAD == <<211, 177, 138>>   \* D3 B1 8A
ID_MPS == <<211, 177, 155>>   \* D3 B1 9B
ID_MDR == <<211, 171, 204>>   \* D3 AB CC
ID_MMD == <<211, 171, 202>>   \* D3 AB CA

TYPES_TO_CHECK ==
    (<<211, 168, 95>>  :> "BNG (Begin Named Page Group)") @@
    (<<211, 169, 95>>  :> "ENG (End Named Page Group)") @@
    (<<211, 168, 251>> :> "BIE (Begin Index Element)") @@
    (<<211, 169, 251>> :> "EIE (End Index Element)") @@
    (<<211, 175, 95>>  :> "IEL (Index Element Link)")

TYPES_TO_REMOVE ==
    (ID_MDR :> "MDR (Map Data Resource)") @@
    (ID_MMD :> "MMD (Medium Modification Control)")

(***************************************************************************)
(* The frame writer and the cleaner's frame parser.                        *)
(***************************************************************************)
\* _sf raises when the length 5 + len(data) does not fit 16 bits.
_sf_raises(d) == PackHRaises(5 + Len(d))

\* _sf with the length field counting the control byte too.
_sf_counting_cc(id, d) == <<CC>> \o PackH(6 + Len(d)) \o id \o d

\* _sf: control byte, big-endian length 5 + len(data), type code, data.
_sf(id, d) ==
    LET length == 5 + Len(d)
    IN  <<CC>> \o PackH(length) \o id \o d

NoFrame(next) ==
    [total_length |-> 0, sf_type |-> <<>>, sf_data |-> <<>>, next_offset |-> next]

\* The parser with the header check of AFPValidator.parse (3 bytes, not 6).
_parse_header_check_3(d, off) ==
    IF off >= Len(d) THEN NoFrame(off)
    ELSE IF At(d, off) # CC
    THEN LET next_cc == Find(d, CC, off + 1)
         IN  IF next_cc = -1 THEN NoFrame(Len(d)) ELSE NoFrame(next_cc)
    ELSE IF off + 3 > Len(d) THEN NoFrame(Len(d))
    ELSE LET length == UnpackH(Slice(d, off + 1, off + 3))
             data_length == IF length - 5 < 0 THEN 0 ELSE length - 5
         IN  [total_length |-> 1 + length,
              sf_type      |-> Slice(d, off + 3, off + 6),
              sf_data      |-> Slice(d, off + 6, off + 6 + data_length),
              next_offset  |-> off + 1 + length]

\* The parser staying at the offset when no control byte follows a stray byte.
_parse_structured_field_stays(d, off) ==
    IF off >= Len(d) THEN NoFrame(off)
    ELSE IF At(d, off) # CC
    THEN LET next_cc == Find(d, CC, off + 1)
         IN  IF next_cc = -1 THEN NoFrame(off) ELSE NoFrame(next_cc)
    ELSE IF off + 6 > Len(d) THEN NoFrame(Len(d))
    ELSE LET length == UnpackH(Slice(d, off + 1, off + 3))
             data_length == IF length - 5 < 0 THEN 0 ELSE length - 5
         IN  [total_length |-> 1 + length,
              sf_type      |-> Slice(d, off + 3, off + 6),
              sf_data      |-> Slice(d, off + 6, off + 6 + data_length),
              next_offset  |-> off + 1 + length]

_parse_structured_field(d, off) ==
    IF off >= Len(d) THEN NoFrame(off)
    ELSE IF At(d, off) # CC
    THEN LET next_cc == Find(d, CC, off + 1)
         IN  IF next_cc = -1 THEN NoFrame(Len(d)) ELSE NoFrame(next_cc)
    ELSE IF off + 6 > Len(d) THEN NoFrame(Len(d))
    ELSE LET length == UnpackH(Slice(d, off + 1, off + 3))
             data_length == IF length - 5 < 0 THEN 0 ELSE length - 5
         IN  [total_length |-> 1 + length,
              sf_type      |-> Slice(d, off + 3, off + 6),
              sf_data      |-> Slice(d, off + 6, off + 6 + data_length),
              next_offset  |-> off + 1 + length]

(***************************************************************************)
(* Text codec.  Text is a sequence of code points; cp500 is Python's       *)
(* codec of that name: CP500_ENCODE[c + 1] is the byte of code point c     *)
(* (ASCII only), CP500_DECODE[b + 1] the code point of byte b.             *)
(***************************************************************************)
CP500_ENCODE ==
    <<
         0,   1,   2,   3,  55,  45,  46,  47,  22,   5,  37,  11,  12,  13,  14,  15,
        16,  17,  18,  19,  60,  61,  50,  38,  24,  25,  63,  39,  28,  29,  30,  31,
        64,  79, 127, 123,  91, 108,  80, 125,  77,  93,  92,  78, 107,  96,  75,  97,
       240, 241, 242, 243, 244, 245, 246, 247, 248, 249, 122,  94,  76, 126, 110, 111,
       124, 193, 194, 195, 196, 197, 198, 199, 200, 201, 209, 210, 211, 212, 213, 214,
       215, 216, 217, 226, 227, 228, 229, 230, 231, 232, 233,  74, 224,  90,  95, 109,
       121, 129, 130, 131, 132, 133, 134, 135, 136, 137, 145, 146, 147, 148, 149, 150,
       151, 152, 153, 162, 163, 164, 165, 166, 167, 168, 169, 192, 187, 208, 161,   7
    >>

CP500_DECODE ==
    <<
         0,   1,   2,   3, 156,   9, 134, 127, 151, 141, 142,  11,  12,  13,  14,  15,
        16,  17,  18,  19, 157, 133,   8, 135,  24,  25, 146, 143,  28,  29,  30,  31,
       128, 129, 130, 131, 132,  10,  23,  27, 136, 137, 138, 139, 140,   5,   6,   7,
       144, 145,  22, 147, 148, 149, 150,   4, 152, 153, 154, 155,  20,  21, 158,  26,
        32, 160, 226, 228, 224, 225, 227, 229, 231, 241,  91,  46,  60,  40,  43,  33,
        38, 233, 234, 235, 232, 237, 238, 239, 236, 223,  93,  36,  42,  41,  59,  94,
        45,  47, 194, 196, 192, 193, 195, 197, 199, 209, 166,  44,  37,  95,  62,  63,
       248, 201, 202, 203, 200, 205, 206, 207, 204,  96,  58,  35,  64,  39,  61,  34,
       216,  97,  98,  99, 100, 101, 102, 103, 104, 105, 171, 187, 240, 253, 254, 177,
       176, 106, 107, 108, 109, 110, 111, 112, 113, 114, 170, 186, 230, 184, 198, 164,
       181, 126, 115, 116, 117, 118, 119, 120, 121, 122, 161, 191, 208, 221, 222, 174,
       162, 163, 165, 183, 169, 167, 182, 188, 189, 190, 172, 124, 175, 168, 180, 215,
       123,  65,  66,  67,  68,  69,  70,  71,  72,  73, 173, 244, 246, 242, 243, 245,
       125,  74,  75,  76,  77,  78,  79,  80,  81,  82, 185, 251, 252, 249, 250, 255,
        92, 247,  83,  84,  85,  86,  87,  88,  89,  90, 178, 212, 214, 210, 211, 213,
        48,  49,  50,  51,  52,  53,  54,  55,  56,  57, 179, 219, 220, 217, 218, 159
    >>

\* text.encode('cp500')
EncodeCp500(text) == [i \in 1..Len(text) |-> CP500_ENCODE[text[i] + 1]]

\* bytes.decode('cp500')
DecodeCp500(bytes) == [i \in 1..Len(bytes) |-> CP500_DECODE[bytes[i] + 1]]

\* Code points str.strip() removes among those cp500 decodes to.
Whitespace == {9, 10, 11, 12, 13, 28, 29, 30, 31, 32, 133, 160}

\* str.strip()
Strip(text) ==
    LET keep == {i \in 1..Len(text) : text[i] \notin Whitespace}
    IN  IF keep = {} THEN <<>>
        ELSE SubSeq(text,
                    CHOOSE i \in keep : \A j \in keep : i <= j,
                    CHOOSE i \in keep : \A j \in keep : i >= j)

\* str.upper() on ASCII text
Upper(text) ==
    [i \in 1..Len(text) |-> IF text[i] \in 97..122 THEN text[i] - 32 ELSE text[i]]

\* text[:n]
Take(text, n) == SubSeq(text, 1, Min(n, Len(text)))

\* text.ljust(n): pad with spaces on the right up to n characters
Ljust(text, n) ==
    IF Len(text) >= n THEN text ELSE text \o [i \in 1..(n - Len(text)) |-> 32]

\* f"{n:0{width}d}": decimal digits of n, zero-padded on the left to width
RECURSIVE Decimal(_, _)
Decimal(n, width) ==
    IF width <= 1 /\ n < 10 THEN <<48 + n>>
    ELSE Decimal(n \div 10, width - 1) \o <<48 + (n % 10)>>

\* needle in text (substring test)
Contains(text, needle) ==
    \E i \in 0..(Len(text) - Len(needle)) :
        SubSeq(text, i + 1, i + Len(needle)) = needle

\* _to_ebcdic: upper-case, cut or pad to length, encode.
_to_ebcdic(text, length) == EncodeCp500(Ljust(Take(Upper(text), length), length))

(***************************************************************************)
(* Document builder: the structured fields of afp_document_generator.py.   *)
(***************************************************************************)
Flags3 == <<0, 0, 0>>

_build_bdt(document_name) == _sf(ID_BDT, Flags3 \o _to_ebcdic(document_name, 8))
_build_edt(document_name) == _sf(ID_EDT, Flags3 \o _to_ebcdic(document_name, 8))
_build_bpg(page_name) == _sf(ID_BPG, Flags3 \o _to_ebcdic(page_name, 8))
_build_epg(page_name) == _sf(ID_EPG, Flags3 \o _to_ebcdic(page_name, 8))

\* _build_tle with the value triplet left out when the value is empty.
_build_tle_skip_empty(attribute_name, attribute_value) ==
    LET name_ebcdic == EncodeCp500(Take(attribute_name, 250))
        name_triplet == <<4 + Len(name_ebcdic), 2, 11, 0>> \o name_ebcdic
        value_ebcdic == EncodeCp500(Take(attribute_value, 250))
        value_triplet == <<Len(value_ebcdic) + 4, 54, 0, 0>> \o value_ebcdic
    IN  IF attribute_value = <<>> THEN <<>>
        ELSE _sf(ID_TLE, Flags3 \o name_triplet \o value_triplet)

\* _build_tle with the length bytes counting the text only, not the 4 header bytes.
_build_tle_text_length(attribute_name, attribute_value) ==
    LET name_ebcdic == EncodeCp500(Take(attribute_name, 250))
        name_triplet == <<Len(name_ebcdic), 2, 11, 0>> \o name_ebcdic
        value_ebcdic == IF attribute_value # <<>>
                        THEN EncodeCp500(Take(attribute_value, 250)) ELSE <<>>
        value_triplet == <<Len(value_ebcdic), 54, 0, 0>> \o value_ebcdic
    IN  _sf(ID_TLE, Flags3 \o name_triplet \o value_triplet)

\* _build_tle: 3 flag bytes, name triplet (id 0x02), value triplet (id 0x36).
_build_tle(attribute_name, attribute_value) ==
    LET name_ebcdic == EncodeCp500(Take(attribute_name, 250))
        name_triplet == <<4 + Len(name_ebcdic), 2, 11, 0>> \o name_ebcdic
        value_ebcdic == IF attribute_value # <<>>
                        THEN EncodeCp500(Take(attribute_value, 250)) ELSE <<>>
        value_triplet == <<Len(value_ebcdic) + 4, 54, 0, 0>> \o value_ebcdic
    IN  _sf(ID_TLE, Flags3 \o name_triplet \o value_triplet)

\* _build_nop_comment: 3 flag bytes and the comment cut or padded to 86 characters.
_build_nop_comment(comment) ==
    _sf(ID_NOP, Flags3 \o EncodeCp500(Ljust(Take(comment, 86), 86)))

_build_brs(resource_name) ==
    _sf(ID_BRS, Flags3 \o _to_ebcdic(resource_name, 8)
                \o <<0, 0, 10, 33, 65, 0, 0, 0, 0, 0, 0>>)
_build_ers(resource_name) == _sf(ID_ERS, Flags3 \o _to_ebcdic(resource_name, 8))
_build_bng(group_name) == _sf(ID_BNG, Flags3 \o _to_ebcdic(group_name, 8))
_build_eng(group_name) == _sf(ID_ENG, Flags3 \o _to_ebcdic(group_name, 8))

\* _build_mcf with the default font mapping (local id 1, X0C10000, T1V10500).
_build_mcf ==
    _sf(ID_MCF, Flags3 \o <<22, 141, 1, 0>>
                \o _to_ebcdic(<<88, 48, 67, 49, 48, 48, 48, 48>>, 8)
                \o _to_ebcdic(<<84, 49, 86, 49, 48, 53, 48, 48>>, 8))

_build_ips(segment_name) == _sf(ID_IPS, Flags3 \o _to_ebcdic(segment_name, 8))
_build_bag == _sf(ID_BAG, Flags3)
_build_eag == _sf(ID_EAG, Flags3)
_build_bps(name) == _sf(ID_BPS, Flags3 \o _to_ebcdic(name, 8))
_build_eps(name) == _sf(ID_EPS, Flags3 \o _to_ebcdic(name, 8))
_build_bio(name) == _sf(ID_BIO, Flags3 \o _to_ebcdic(name, 8))
_build_eio == _sf(ID_EIO, Flags3)
_build_bog == _sf(ID_BOG, Flags3)
\* _build_eog writing the begin type code.
_build_eog_begin_code == _sf(ID_BOG, Flags3)

_build_eog == _sf(ID_EOG, Flags3)

_build_obd(width, height, resolution) ==
    _sf(ID_OBD, Flags3 \o <<3, 67, 1>> \o <<8, 75, 0, 0, 56, 64, 56, 64>>
                \o <<9, 76, 2, 0, 35, 78, 0, 33, 149>>)

_build_obp ==
    _sf(ID_OBP, Flags3 \o <<1, 23>> \o Repeat(0, 8) \o <<45, 0, 0, 0, 0, 0, 0, 0>>
                \o <<0, 0, 0>> \o <<45, 0, 0>>)

_build_idd(width, height, resolution) ==
    _sf(ID_IDD, <<0, 0, 0, 0>> \o PackH(resolution * 10) \o PackH(resolution * 10)
                \o PackH(width) \o PackH(height) \o <<246, 4, 0, 0, 0, 8>>)

_build_iid == _sf(ID_IID, Flags3 \o <<0, 5, 3, 4, 16>>)

max_data_per_ipd == 8180

\* The chunk loop with chunks of up to 8192 bytes.
RECURSIVE DataIpds_chunk_8192(_, _, _)
DataIpds_chunk_8192(image_data, off, ipd_num) ==
    LET total == Len(image_data)
        remaining == total - off
        chunk_size == Min(8192, remaining)
        num == ipd_num + 1
        is_last == off + chunk_size >= total
        is_first_data_ipd == (num = 2)
        raster == Slice(image_data, off, off + chunk_size)
        marker == <<254, 146>> \o PackH(chunk_size)
        trailer == <<147, 0, 113, 0>>
        chunk == IF is_first_data_ipd /\ is_last THEN Flags3 \o raster \o trailer
                 ELSE IF is_first_data_ipd THEN Flags3 \o raster
                 ELSE IF is_last THEN Flags3 \o marker \o raster \o trailer
                 ELSE Flags3 \o marker \o raster
    IN  IF off < total
        THEN _sf(ID_IPD, chunk) \o DataIpds_chunk_8192(image_data, off + chunk_size, num)
        ELSE <<>>

\* The chunk loop with the length marker in the first data record too.
RECURSIVE DataIpds_marker_always(_, _, _)
DataIpds_marker_always(image_data, off, ipd_num) ==
    LET total == Len(image_data)
        remaining == total - off
        chunk_size == Min(max_data_per_ipd, remaining)
        num == ipd_num + 1
        is_last == off + chunk_size >= total
        is_first_data_ipd == (num = 2)
        raster == Slice(image_data, off, off + chunk_size)
        marker == <<254, 146>> \o PackH(chunk_size)
        trailer == <<147, 0, 113, 0>>
        chunk == IF is_first_data_ipd /\ is_last THEN Flags3 \o marker \o raster \o trailer
                 ELSE IF is_first_data_ipd THEN Flags3 \o marker \o raster
                 ELSE IF is_last THEN Flags3 \o marker \o raster \o trailer
                 ELSE Flags3 \o marker \o raster
    IN  IF off < total
        THEN _sf(ID_IPD, chunk) \o DataIpds_marker_always(image_data, off + chunk_size, num)
        ELSE <<>>

\* The chunk loop of _build_ipd_records, from `offset` on; ipd_num counts the
\* IPD records emitted so far (1 after the header record).
RECURSIVE DataIpds(_, _, _)
DataIpds(image_data, off, ipd_num) ==
    LET total == Len(image_data)
        remaining == total - off
        chunk_size == Min(max_data_per_ipd, remaining)
        num == ipd_num + 1
        is_last == off + chunk_size >= total
        is_first_data_ipd == (num = 2)
        raster == Slice(image_data, off, off + chunk_size)
        marker == <<254, 146>> \o PackH(chunk_size)
        trailer == <<147, 0, 113, 0>>
        chunk == IF is_first_data_ipd /\ is_last THEN Flags3 \o raster \o trailer
                 ELSE IF is_first_data_ipd THEN Flags3 \o raster
                 ELSE IF is_last THEN Flags3 \o marker \o raster \o trailer
                 ELSE Flags3 \o marker \o raster
    IN  IF off < total
        THEN _sf(ID_IPD, chunk) \o DataIpds(image_data, off + chunk_size, num)
        ELSE <<>>

\* _build_ipd_records: the header record, then the data records.
_build_ipd_records(image_data, width, height, resolution) ==
    LET res_10 == resolution * 10
        first_ipd == Flags3 \o <<112, 0>> \o <<145, 1, 255>>
                     \o <<148, 9, 0>> \o PackH(res_10) \o PackH(res_10)
                     \o PackH(width) \o PackH(height)
                     \o <<149, 2, 3, 1>> \o <<150, 1, 1>> \o <<151, 1, 0>>
                     \o <<254, 146>> \o PackH(Min(Len(image_data), 8180))
    IN  _sf(ID_IPD, first_ipd) \o DataIpds(image_data, 0, 1)

\* _to_bilevel with the threshold test `<= 128`.
_to_bilevel_le_128(gray, w, h) ==
    LET bpr == (w + 7) \div 8
        Bit(y, x) == IF x < w /\ y * w + x < Len(gray) /\ At(gray, y * w + x) <= 128
                     THEN 1 ELSE 0
        Byte(k) == LET y == k \div bpr
                       x0 == (k % bpr) * 8
                   IN  Bit(y, x0) * 128 + Bit(y, x0 + 1) * 64 + Bit(y, x0 + 2) * 32
                       + Bit(y, x0 + 3) * 16 + Bit(y, x0 + 4) * 8 + Bit(y, x0 + 5) * 4
                       + Bit(y, x0 + 6) * 2 + Bit(y, x0 + 7)
    IN  [k \in 1..(bpr * h) |-> Byte(k - 1)]

\* _to_bilevel: bit 0x80 >> (x % 8) of byte y*bpr + x//8 is set when the sample
\* of pixel (x, y) exists and is below 128.
_to_bilevel(gray, w, h) ==
    LET bpr == (w + 7) \div 8
        Bit(y, x) == IF x < w /\ y * w + x < Len(gray) /\ At(gray, y * w + x) < 128
                     THEN 1 ELSE 0
        Byte(k) == LET y == k \div bpr
                       x0 == (k % bpr) * 8
                   IN  Bit(y, x0) * 128 + Bit(y, x0 + 1) * 64 + Bit(y, x0 + 2) * 32
                       + Bit(y, x0 + 3) * 16 + Bit(y, x0 + 4) * 8 + Bit(y, x0 + 5) * 4
                       + Bit(y, x0 + 6) * 2 + Bit(y, x0 + 7)
    IN  [k \in 1..(bpr * h) |-> Byte(k - 1)]

\* The width padding of generate_inline_image: rows widened to padded_width,
\* the added samples 0.
PadRows(image_data, width, height, padded_width) ==
    [k \in 1..(padded_width * height) |->
        LET y == (k - 1) \div padded_width
            x == (k - 1) % padded_width
        IN  IF x < width /\ y * width + x < Len(image_data)
            THEN At(image_data, y * width + x) ELSE 0]

\* generate_inline_image: BIO, object environment group, IPD records, EIO.
generate_inline_image(image_data, width, height, resolution) ==
    LET padded_width == ((width + 7) \div 8) * 8
        padded == IF padded_width # width
                  THEN PadRows(image_data, width, height, padded_width)
                  ELSE image_data
        bilevel_data == _to_bilevel(padded, padded_width, height)
    IN  _build_bio(<<>>) \o _build_bog
        \o _build_obd(padded_width, height, resolution) \o _build_obp \o _build_iid
        \o _build_idd(padded_width, height, resolution) \o _build_eog
        \o _build_ipd_records(bilevel_data, padded_width, height, resolution)
        \o _build_eio

(***************************************************************************)
(* Document builder: the two topologies.  A page is a record whose fields  *)
(* are the keys of the page dict; a missing key is a missing field.        *)
(***************************************************************************)

\* The seven index fields, in the order both builders emit them: the dict key
\* and the same key as text (the TLE attribute name).
TleKeys ==
    << [key |-> "mailing_name",
        text |-> <<109, 97, 105, 108, 105, 110, 103, 95, 110, 97, 109, 101>>],
       [key |-> "mailing_addr1",
        text |-> <<109, 97, 105, 108, 105, 110, 103, 95, 97, 100, 100, 114, 49>>],
       [key |-> "mailing_addr2",
        text |-> <<109, 97, 105, 108, 105, 110, 103, 95, 97, 100, 100, 114, 50>>],
       [key |-> "mailing_addr3",
        text |-> <<109, 97, 105, 108, 105, 110, 103, 95, 97, 100, 100, 114, 51>>],
       [key |-> "return_addr1",
        text |-> <<114, 101, 116, 117, 114, 110, 95, 97, 100, 100, 114, 49>>],
       [key |-> "return_addr2",
        text |-> <<114, 101, 116, 117, 114, 110, 95, 97, 100, 100, 114, 50>>],
       [key |-> "return_addr3",
        text |-> <<114, 101, 116, 117, 114, 110, 95, 97, 100, 100, 114, 51>> ] >>

\* tle_data.get(key, '') with tle_data = page.get('tle_data', {})
TleValue(page, key) ==
    IF "tle_data" \notin DOMAIN page THEN <<>>
    ELSE IF key \in DOMAIN page.tle_data THEN page.tle_data[key] ELSE <<>>

\* The loop over tle_fields: one TLE per key, from the k-th key on.
RECURSIVE TleRecordsFrom(_, _)
TleRecordsFrom(page, k) ==
    IF k > Len(TleKeys) THEN <<>>
    ELSE _build_tle(TleKeys[k].text, TleValue(page, TleKeys[k].key))
         \o TleRecordsFrom(page, k + 1)

TleRecords(page) == TleRecordsFrom(page, 1)

\* `if image_data:` with image_data = page.get('image_data'): the key is present
\* and the bytes are not empty
HasImage(page) == "image_data" \in DOMAIN page /\ page.image_data # <<>>

\* page.get('width', page_width), page.get('height', page_height)
ImgWidth(page, page_width) ==
    IF "width" \in DOMAIN page THEN page.width ELSE page_width
ImgHeight(page, page_height) ==
    IF "height" \in DOMAIN page THEN page.height ELSE page_height

\* One iteration of generate_afp_document's loop with EDT written before EPG.
DocumentPage_edt_first(page, page_num, resolution, page_width, page_height) ==
    LET doc_name == <<68, 79, 67>> \o Decimal(page_num, 5)
        page_name == <<80>> \o Decimal(page_num, 7)
        image == IF HasImage(page)
                 THEN generate_inline_image(page.image_data,
                          ImgWidth(page, page_width), ImgHeight(page, page_height),
                          resolution)
                 ELSE <<>>
    IN  _build_bdt(doc_name) \o _build_bpg(page_name) \o _build_bag \o _build_eag
        \o TleRecords(page) \o image
        \o _build_edt(doc_name) \o _build_epg(page_name)

\* One iteration of generate_afp_document's loop: the page's own document.
DocumentPage(page, page_num, resolution, page_width, page_height) ==
    LET doc_name == <<68, 79, 67>> \o Decimal(page_num, 5)      \* f"DOC{page_num:05d}"
        page_name == <<80>> \o Decimal(page_num, 7)             \* f"P{page_num:07d}"
        image == IF HasImage(page)
                 THEN generate_inline_image(page.image_data,
                          ImgWidth(page, page_width), ImgHeight(page, page_height),
                          resolution)
                 ELSE <<>>
    IN  _build_bdt(doc_name) \o _build_bpg(page_name) \o _build_bag \o _build_eag
        \o TleRecords(page) \o image
        \o _build_epg(page_name) \o _build_edt(doc_name)

RECURSIVE DocumentPagesFrom(_, _, _, _, _)
DocumentPagesFrom(pgs, page_num, resolution, page_width, page_height) ==
    IF page_num > Len(pgs) THEN <<>>
    ELSE DocumentPage(pgs[page_num], page_num, resolution, page_width, page_height)
         \o DocumentPagesFrom(pgs, page_num + 1, resolution, page_width, page_height)

generate_afp_document(pgs, document_name, resolution, page_width, page_height) ==
    DocumentPagesFrom(pgs, 1, resolution, page_width, page_height)

\* One iteration of the resource loop of generate_afp_with_resources.
ResourceSegment(page, page_num, resolution, page_width, page_height) ==
    LET segment_name == <<83>> \o Decimal(page_num, 7)          \* f"S{page_num:07d}"
        image_obj_name == <<73>> \o Decimal(page_num, 7)        \* f"I{page_num:07d}"
        img_width == ImgWidth(page, page_width)
        img_height == ImgHeight(page, page_height)
    IN  IF ~HasImage(page) THEN <<>>
        ELSE _build_brs(segment_name) \o _build_bps(segment_name)
             \o _build_bio(image_obj_name)
             \o _build_bog \o _build_obd(img_width, img_height, resolution)
             \o _build_obp \o _build_iid \o _build_eog
             \o _build_idd(img_width, img_height, resolution)
             \o _build_ipd_records(page.image_data, img_width, img_height, resolution)
             \o _build_eio \o _build_eps(segment_name) \o _build_ers(segment_name)

RECURSIVE ResourceSectionFrom(_, _, _, _, _)
ResourceSectionFrom(pgs, page_num, resolution, page_width, page_height) ==
    IF page_num > Len(pgs) THEN <<>>
    ELSE ResourceSegment(pgs[page_num], page_num, resolution, page_width, page_height)
         \o ResourceSectionFrom(pgs, page_num + 1, resolution, page_width, page_height)

\* page_segments: the segment names of the pages that carry an image, in order.
RECURSIVE PageSegmentsFrom(_, _)
PageSegmentsFrom(pgs, page_num) ==
    IF page_num > Len(pgs) THEN <<>>
    ELSE (IF HasImage(pgs[page_num])
          THEN << <<83>> \o Decimal(page_num, 7) >> ELSE <<>>)
         \o PageSegmentsFrom(pgs, page_num + 1)

\* One iteration of the page loop of generate_afp_with_resources; includes
\* says whether the page takes the next entry of page_segments.
GroupPage(page, page_num, includes, segment_name) ==
    LET group_name == <<71>> \o Decimal(page_num, 7)            \* f"G{page_num:07d}"
        page_name == <<80>> \o Decimal(page_num, 7)             \* f"P{page_num:07d}"
    IN  _build_bng(group_name) \o TleRecords(page)
        \o _build_bpg(page_name) \o _build_bag \o _build_mcf \o _build_eag
        \o (IF includes THEN _build_ips(segment_name) ELSE <<>>)
        \o _build_epg(page_name) \o _build_eng(group_name)

RECURSIVE PageSectionFrom(_, _, _, _)
PageSectionFrom(pgs, page_num, segment_index, page_segments) ==
    IF page_num > Len(pgs) THEN <<>>
    ELSE LET includes == HasImage(pgs[page_num]) /\ segment_index < Len(page_segments)
             segment_name == IF includes THEN page_segments[segment_index + 1] ELSE <<>>
         IN  GroupPage(pgs[page_num], page_num, includes, segment_name)
             \o PageSectionFrom(pgs, page_num + 1,
                                IF includes THEN segment_index + 1 ELSE segment_index,
                                page_segments)

\* generate_afp_with_resources; now is datetime.now() formatted '%Y-%m-%d %H:%M:%S'.
generate_afp_with_resources(pgs, document_name, resolution, page_width, page_height, now) ==
    _build_nop_comment(<<71, 101, 110, 101, 114, 97, 116, 101, 100, 32, 98, 121, 32, 65,
                         100, 104, 111, 99, 80, 114, 105, 110, 116, 83, 116, 117, 100,
                         105, 111>>)                    \* "Generated by AdhocPrintStudio"
    \o _build_nop_comment(<<68, 97, 116, 101, 58, 32>> \o now)      \* "Date: ..."
    \o _build_bdt(document_name)
    \o ResourceSectionFrom(pgs, 1, resolution, page_width, page_height)
    \o PageSectionFrom(pgs, 1, 0, PageSegmentsFrom(pgs, 1))
    \o _build_edt(document_name)

PRINTDOC == <<80, 82, 73, 78, 84, 68, 79, 67>>      \* default document_name
DefaultResolution == 240
DefaultPageWidth == 2040
DefaultPageHeight == 2640

(***************************************************************************)
(* Structure validator (afp_validator.py).                                 *)
(***************************************************************************)
\* SF_TYPES of afp_validator.py: type code -> short code.
VALIDATOR_TYPES ==
    (<<211, 168, 167>> :> "BDT") @@ (<<211, 169, 167>> :> "EDT") @@
    (<<211, 168, 168>> :> "BPG") @@ (<<211, 169, 168>> :> "EPG") @@
    (<<211, 166, 196>> :> "PGD") @@ (<<211, 160, 144>> :> "TLE") @@
    (<<211, 238, 238>> :> "NOP") @@
    (<<211, 168, 95>>  :> "BPS") @@ (<<211, 169, 95>>  :> "EPS") @@
    (<<211, 168, 251>> :> "BIO") @@ (<<211, 169, 251>> :> "EIO") @@
    (<<211, 166, 251>> :> "IDD") @@ (<<211, 238, 251>> :> "IPD") @@
    (<<211, 168, 199>> :> "BOG") @@ (<<211, 169, 199>> :> "EOG") @@
    (<<211, 166, 107>> :> "OBD") @@ (<<211, 172, 107>> :> "OBP") @@
    (<<211, 175, 95>>  :> "IPS") @@
    (<<211, 168, 173>> :> "BAG") @@ (<<211, 169, 173>> :> "EAG") @@
    (<<211, 168, 137>> :> "BPT") @@ (<<211, 169, 137>> :> "EPT") @@
    (<<211, 238, 155>> :> "PTX")

\* SF_TYPES.get(sf_id, ("UNK", ...))[0]
CodeOf(id) == IF id \in DOMAIN VALIDATOR_TYPES THEN VALIDATOR_TYPES[id] ELSE "UNK"

\* One entry of errors or warnings: the message and the number or name in it.
Finding(msg, arg) == [msg |-> msg, arg |-> arg]

ZeroDepth ==
    [page_depth |-> 0, aeg_depth |-> 0, segment_depth |-> 0,
     image_depth |-> 0, oeg_depth |-> 0]

\* AFPValidator(data): a fresh validator over the current buffer.
NewValidator ==
    /\ pc \in {"read", "built", "input", "cleaned"}
    /\ pc' = "parse"
    /\ parse_offset' = 0
    /\ fields' = <<>>
    /\ errors' = <<>>
    /\ warnings' = <<>>
    /\ field_idx' = 0
    /\ depth' = ZeroDepth
    /\ is_valid' = FALSE
    /\ UNCHANGED <<data, first_errors,
                   frameVars, buildVars, cleanVars,
                   runVars>>

\* One iteration of the loop of AFPValidator.parse.
ParseStep ==
    /\ pc = "parse"
    /\ parse_offset < Len(data)
    /\ IF At(data, parse_offset) # CC
       THEN LET next_cc == Find(data, CC, parse_offset + 1)
            IN  /\ errors' = Append(errors, Finding("Expected CC (0x5A)", parse_offset))
                /\ fields' = fields
                /\ IF next_cc = -1
                   THEN pc' = "parsed" /\ parse_offset' = parse_offset
                   ELSE pc' = "parse" /\ parse_offset' = next_cc
       ELSE IF parse_offset + 3 > Len(data)
       THEN /\ errors' = Append(errors,
                    Finding("Truncated structured field (no length)", parse_offset))
            /\ fields' = fields
            /\ pc' = "parsed" /\ parse_offset' = parse_offset
       ELSE LET length == UnpackH(Slice(data, parse_offset + 1, parse_offset + 3))
                id == Slice(data, parse_offset + 3, parse_offset + 6)
            IN  IF length < 5
                THEN /\ errors' = Append(errors,
                             Finding("Invalid SF length (minimum is 5)", parse_offset))
                     /\ fields' = fields
                     /\ pc' = "parse" /\ parse_offset' = parse_offset + 3
                ELSE IF parse_offset + 1 + length > Len(data)
                THEN /\ errors' = Append(errors,
                             Finding("SF length exceeds data", parse_offset))
                     /\ fields' = fields
                     /\ pc' = "parsed" /\ parse_offset' = parse_offset
                ELSE /\ errors' = errors
                     /\ fields' = Append(fields,
                            [num    |-> Len(fields) + 1,
                             offset |-> parse_offset,
                             length |-> length,
                             sf_id  |-> id,
                             code   |-> CodeOf(id),
                             data   |-> Slice(data, parse_offset + 6,
                                              parse_offset + 1 + length)])
                     /\ pc' = "parse" /\ parse_offset' = parse_offset + 1 + length
    /\ UNCHANGED <<data, warnings, field_idx, depth, is_valid, first_errors,
                   frameVars, buildVars, cleanVars,
                   runVars>>

\* The loop test of AFPValidator.parse fails: parse returns.
ParseDone ==
    /\ pc = "parse"
    /\ parse_offset >= Len(data)
    /\ pc' = "parsed"
    /\ UNCHANGED <<data, validVars, frameVars, buildVars, cleanVars,
                   runVars>>

\* [f['code'] for f in self.fields]
Codes == [i \in 1..Len(fields) |-> fields[i].code]

HasCode(c) == \E i \in 1..Len(fields) : fields[i].code = c

\* codes.index(c) giving the last index of c instead of the first.
IndexOfCode_last(c) ==
    IF HasCode(c)
    THEN (CHOOSE i \in 1..Len(fields) :
              fields[i].code = c /\ \A j \in (i + 1)..Len(fields) : fields[j].code # c) - 1
    ELSE -1

\* codes.index(c) if c in codes else -1  (0-based)
IndexOfCode(c) ==
    IF HasCode(c)
    THEN (CHOOSE i \in 1..Len(fields) :
              fields[i].code = c /\ \A j \in 1..(i - 1) : fields[j].code # c) - 1
    ELSE -1

\* The warnings for fields before BDT: fields 0..bdt_idx-1 whose code is not NOP.
RECURSIVE BeforeBdtWarnings(_, _)
BeforeBdtWarnings(i, bdt_idx) ==
    IF i >= bdt_idx THEN <<>>
    ELSE (IF fields[i + 1].code # "NOP"
          THEN <<Finding("Field appears before BDT", i + 1)>> ELSE <<>>)
         \o BeforeBdtWarnings(i + 1, bdt_idx)

\* validate_structure up to the depth loop: required fields, document bounds.
ValidateBegin ==
    /\ pc = "parsed"
    /\ LET bdt_idx == IndexOfCode("BDT")
           edt_idx == IndexOfCode("EDT")
       IN  /\ errors' = errors
                \o (IF ~HasCode("BDT")
                    THEN <<Finding("Missing BDT (Begin Document)", 0)>> ELSE <<>>)
                \o (IF ~HasCode("EDT")
                    THEN <<Finding("Missing EDT (End Document)", 0)>> ELSE <<>>)
                \o (IF ~HasCode("BPG")
                    THEN <<Finding("Missing BPG (Begin Page)", 0)>> ELSE <<>>)
                \o (IF ~HasCode("EPG")
                    THEN <<Finding("Missing EPG (End Page)", 0)>> ELSE <<>>)
           /\ warnings' = warnings
                \o (IF bdt_idx > 0 THEN BeforeBdtWarnings(0, bdt_idx) ELSE <<>>)
                \o (IF edt_idx >= 0 /\ edt_idx < Len(fields) - 1
                    THEN <<Finding("Fields appear after EDT", 0)>> ELSE <<>>)
    /\ field_idx' = 0
    /\ depth' = ZeroDepth
    /\ pc' = "depth"
    /\ UNCHANGED <<data, parse_offset, fields, is_valid, first_errors,
                   frameVars, buildVars, cleanVars,
                   runVars>>

\* The End-X branch of the depth loop: decrement, then report a negative counter.
EndBranch(counter, msg) ==
    /\ depth' = [depth EXCEPT ![counter] = depth[counter] - 1]
    /\ errors' = IF depth[counter] - 1 < 0
                 THEN Append(errors, Finding(msg, field_idx + 1))
                 ELSE errors

\* One iteration of the depth loop of validate_structure.
DepthStep ==
    /\ pc = "depth"
    /\ field_idx < Len(fields)
    /\ LET code == fields[field_idx + 1].code
       IN  CASE code = "BPG" ->
                  /\ depth' = [depth EXCEPT !.page_depth = depth.page_depth + 1]
                  /\ errors' = IF depth.page_depth + 1 > 1
                               THEN Append(errors, Finding("Nested BPG (page inside page)",
                                                           field_idx + 1))
                               ELSE errors
             [] code = "EPG" -> EndBranch("page_depth", "EPG without matching BPG")
             [] code = "BAG" ->
                  /\ depth' = [depth EXCEPT !.aeg_depth = depth.aeg_depth + 1]
                  /\ errors' = errors
             [] code = "EAG" -> EndBranch("aeg_depth", "EAG without matching BAG")
             [] code = "BPS" ->
                  /\ depth' = [depth EXCEPT !.segment_depth = depth.segment_depth + 1]
                  /\ errors' = errors
             [] code = "EPS" -> EndBranch("segment_depth", "EPS without matching BPS")
             [] code = "BIO" ->
                  /\ depth' = [depth EXCEPT !.image_depth = depth.image_depth + 1]
                  /\ errors' = errors
             [] code = "EIO" -> EndBranch("image_depth", "EIO without matching BIO")
             [] code = "BOG" ->
                  /\ depth' = [depth EXCEPT !.oeg_depth = depth.oeg_depth + 1]
                  /\ errors' = errors
             [] code = "EOG" -> EndBranch("oeg_depth", "EOG without matching BOG")
             [] OTHER -> depth' = depth /\ errors' = errors
    /\ field_idx' = field_idx + 1
    /\ UNCHANGED <<pc, data, parse_offset, fields, warnings, is_valid, first_errors,
                   frameVars, buildVars, cleanVars,
                   runVars>>

\* The "Unclosed ..." errors after the depth loop, in the order of the code.
UnclosedErrors ==
    (IF depth.page_depth # 0
     THEN <<Finding("Unclosed pages", depth.page_depth)>> ELSE <<>>)
    \o (IF depth.aeg_depth # 0
        THEN <<Finding("Unclosed AEG", depth.aeg_depth)>> ELSE <<>>)
    \o (IF depth.segment_depth # 0
        THEN <<Finding("Unclosed segments", depth.segment_depth)>> ELSE <<>>)
    \o (IF depth.image_depth # 0
        THEN <<Finding("Unclosed images", depth.image_depth)>> ELSE <<>>)
    \o (IF depth.oeg_depth # 0
        THEN <<Finding("Unclosed OEG", depth.oeg_depth)>> ELSE <<>>)

\* The names of the fields with this code, decoded and not stripped.
NamesOf_no_strip(code) ==
    {DecodeCp500(Slice(fields[i].data, 3, 11)) :
        i \in {j \in 1..Len(fields) : fields[j].code = code /\ Len(fields[j].data) >= 11}}

\* The names (decoded, stripped) of the fields with this code and >= 11 data bytes.
NamesOf(code) ==
    {Strip(DecodeCp500(Slice(fields[i].data, 3, 11))) :
        i \in {j \in 1..Len(fields) : fields[j].code = code /\ Len(fields[j].data) >= 11}}

\* All orders in which a set can be iterated.
Orders(S) ==
    {seq \in [1..Cardinality(S) -> S] :
        \A i, j \in 1..Cardinality(S) : i # j => seq[i] # seq[j]}

\* The verdict turning false on a warning as well.
Verdict_any_finding(errs) == Len(errs) = 0 /\ Len(warnings) = 0

\* len(validator.errors) == 0
Verdict(errs) == Len(errs) = 0

\* validate_structure after the depth loop, and the verdict of validate_afp_bytes.
ValidateEnd ==
    /\ pc = "depth"
    /\ field_idx >= Len(fields)
    /\ errors' = errors \o UnclosedErrors
    /\ LET has_page_content ==
               \E i \in 1..Len(fields) : fields[i].code \in {"IPS", "PTX", "IPD"}
           undefined == NamesOf("IPS") \ NamesOf("BPS")
       IN  \E order \in Orders(undefined) :
               warnings' = warnings
                   \o (IF ~has_page_content
                       THEN <<Finding("No renderable page content found", 0)>>
                       ELSE <<>>)
                   \o [i \in 1..Len(order) |->
                          Finding("IPS references undefined segment", order[i])]
    /\ is_valid' = Verdict(errors')
    /\ pc' = "validated"
    /\ UNCHANGED <<data, parse_offset, fields, field_idx, depth, first_errors,
                   frameVars, buildVars, cleanVars,
                   runVars>>

(***************************************************************************)
(* Field cleaner (afp_cleaner.py).                                         *)
(***************************************************************************)
\* _is_s_number with the scan stopping one offset early.
_is_s_number_stops_early(d) ==
    IF Len(d) < 8 THEN FALSE
    ELSE \E i \in 0..(Len(d) - 9) :
            /\ At(d, i) = 226
            /\ \A j \in 1..7 : At(d, i + j) >= 240 /\ At(d, i + j) <= 249

\* _is_s_number: some offset i in range(len(data) - 7) holds 0xE2 and the seven
\* bytes after it are EBCDIC digits.
_is_s_number(d) ==
    IF Len(d) < 8 THEN FALSE
    ELSE \E i \in 0..(Len(d) - 8) :
            /\ At(d, i) = 226
            /\ \A j \in 1..7 : At(d, i + j) >= 240 /\ At(d, i + j) <= 249

\* stats = {name: 0 ...}; stats["total_removed"] = 0; stats["total_kept"] = 0
StatsOver(names) == [n \in names \cup {"total_removed", "total_kept"} |-> 0]

NamesOfTable(table) == {table[t] : t \in DOMAIN table}

Bump(st, key) == [st EXCEPT ![key] = st[key] + 1]

\* clean_afp(input_data) / clean_afp_advanced(input_data) is entered.
StartClean ==
    /\ pc \in {"input", "built"}
    /\ \E v \in {"clean_afp", "clean_afp_advanced"} :
        /\ variant' = v
        /\ stats' = IF v = "clean_afp"
                    THEN StatsOver(NamesOfTable(TYPES_TO_CHECK))
                    ELSE StatsOver(NamesOfTable(TYPES_TO_CHECK)
                                   \cup NamesOfTable(TYPES_TO_REMOVE)
                                   \cup {"BlankPD pages"})
    /\ pass' = 1
    /\ offset' = 0
    /\ output' = <<>>
    /\ cfields' = <<>>
    /\ pages_to_remove' = {}
    /\ log' = <<>>
    /\ first_output' = <<>>
    /\ pc' = "clean"
    /\ UNCHANGED <<data, pieces, frameVars, buildVars, validVars,
                   runVars>>

\* What the scan decided for one parsed item.
LogEntry(off, r, removed) ==
    [offset  |-> off,
     is_sf   |-> r.total_length # 0,
     sf_type |-> r.sf_type,
     sf_data |-> r.sf_data,
     raw     |-> IF r.total_length # 0
                 THEN Slice(data, off, off + r.total_length)
                 ELSE Slice(data, off, r.next_offset),
     removed |-> removed]

\* The body of clean_afp's loop for the item r parsed at offset.
CleanStepBody(r) ==
    IF r.total_length = 0
    THEN /\ output' = IF r.next_offset > offset
                      THEN output \o Slice(data, offset, r.next_offset) ELSE output
         /\ stats' = stats
         /\ log' = Append(log, LogEntry(offset, r, FALSE))
    ELSE LET should_remove == /\ r.sf_type \in DOMAIN TYPES_TO_CHECK
                              /\ _is_s_number(r.sf_data)
         IN  /\ output' = IF should_remove THEN output
                          ELSE output \o Slice(data, offset, offset + r.total_length)
             /\ stats' = IF should_remove
                         THEN Bump(Bump(stats, TYPES_TO_CHECK[r.sf_type]), "total_removed")
                         ELSE Bump(stats, "total_kept")
             /\ log' = Append(log, LogEntry(offset, r, should_remove))

\* One iteration of the loop of clean_afp.
CleanStep ==
    /\ pc = "clean"
    /\ variant = "clean_afp"
    /\ offset < Len(data)
    /\ LET r == _parse_structured_field(data, offset)
       IN  /\ CleanStepBody(r)
           /\ offset' = r.next_offset
    /\ UNCHANGED <<pc, data, pieces, variant, cfields, pages_to_remove, pass,
                   first_output, frameVars, buildVars, validVars,
                   runVars>>

\* The loop test of clean_afp fails: it returns (bytes(output), stats).
CleanDone ==
    /\ pc = "clean"
    /\ variant = "clean_afp"
    /\ offset >= Len(data)
    /\ pc' = "cleaned"
    /\ UNCHANGED <<data, cleanVars, frameVars, buildVars, validVars,
                   runVars>>

\* One iteration of the first pass of clean_afp_advanced: collect the item.
AdvCollectStep ==
    /\ pc = "clean"
    /\ variant = "clean_afp_advanced"
    /\ offset < Len(data)
    /\ LET r == _parse_structured_field(data, offset)
       IN  /\ cfields' =
                 IF r.total_length = 0
                 THEN IF r.next_offset > offset
                      THEN Append(cfields,
                               [offset |-> offset, length |-> r.next_offset - offset,
                                is_sf |-> FALSE, sf_type |-> <<>>, sf_data |-> <<>>,
                                raw_data |-> Slice(data, offset, r.next_offset)])
                      ELSE cfields
                 ELSE Append(cfields,
                          [offset |-> offset, length |-> r.total_length,
                           is_sf |-> TRUE, sf_type |-> r.sf_type, sf_data |-> r.sf_data,
                           raw_data |-> Slice(data, offset, offset + r.total_length)])
           /\ offset' = r.next_offset
    /\ UNCHANGED <<pc, data, pieces, variant, pages_to_remove, output, stats, log,
                   pass, first_output, frameVars, buildVars, validVars,
                   runVars>>

\* The loop test of the first pass fails.
AdvCollectDone ==
    /\ pc = "clean"
    /\ variant = "clean_afp_advanced"
    /\ offset >= Len(data)
    /\ pc' = "mark"
    /\ UNCHANGED <<data, cleanVars, frameVars, buildVars, validVars,
                   runVars>>

\* _get_page_name: bytes 2..9 of the field data, decoded and stripped.
_get_page_name(sf_data) ==
    IF Len(sf_data) < 10 THEN <<>>
    ELSE Strip(DecodeCp500(Slice(sf_data, 2, 10)))

\* _contains_gad_or_mps testing for GAD only.
_contains_gad_only(types) ==
    \E i \in 1..Len(types) : types[i] = ID_GAD

\* _contains_gad_or_mps over the types of the buffered page fields
_contains_gad_or_mps(types) ==
    \E i \in 1..Len(types) : types[i] = ID_GAD \/ types[i] = ID_MPS

BlankPD == <<66, 108, 97, 110, 107, 80, 68>>    \* "BlankPD"
Blank == <<66, 108, 97, 110, 107>>              \* "Blank"

\* The second pass of clean_afp_advanced from field i on (0-based).  start is
\* current_page_start (-1 for None), name is current_page_name, types are the
\* types of current_page_fields, acc is pages_to_remove.
RECURSIVE MarkPagesFrom(_, _, _, _, _)
MarkPagesFrom(i, start, name, types, acc) ==
    IF i >= Len(cfields) THEN acc
    ELSE LET f == cfields[i + 1]
         IN  IF f.is_sf /\ f.sf_type = ID_BPG
             THEN MarkPagesFrom(i + 1, i,
                                IF f.sf_data # <<>> THEN _get_page_name(f.sf_data)
                                ELSE <<>>,
                                <<f.sf_type>>, acc)
             ELSE IF f.is_sf /\ f.sf_type = ID_EPG
             THEN IF start # -1
                  THEN LET all == Append(types, f.sf_type)
                           drop == /\ \/ name = BlankPD
                                      \/ name # <<>> /\ Contains(name, Blank)
                                   /\ _contains_gad_or_mps(all)
                       IN  MarkPagesFrom(i + 1, -1, <<>>, <<>>,
                                         IF drop THEN acc \cup {<<start, i>>} ELSE acc)
                  ELSE MarkPagesFrom(i + 1, start, name, types, acc)
             ELSE IF start # -1 /\ f.is_sf
             THEN MarkPagesFrom(i + 1, start, name, Append(types, f.sf_type), acc)
             ELSE MarkPagesFrom(i + 1, start, name, types, acc)

\* The second pass of clean_afp_advanced: the page ranges to drop.
AdvMarkPages ==
    /\ pc = "mark"
    /\ pages_to_remove' = MarkPagesFrom(0, -1, <<>>, <<>>, {})
    /\ pc' = "emit"
    /\ UNCHANGED <<data, pieces, variant, offset, cfields, output, stats, log, pass,
                   first_output, frameVars, buildVars, validVars,
                   runVars>>

\* indices_to_remove: every index inside a page range to drop
IndicesToRemove == {i \in 0..(Len(cfields) - 1) :
                        \E pr \in pages_to_remove : pr[1] <= i /\ i <= pr[2]}

AdvLogEntry(f, removed) ==
    [offset |-> f.offset, is_sf |-> f.is_sf, sf_type |-> f.sf_type,
     sf_data |-> f.sf_data, raw |-> f.raw_data, removed |-> removed]

\* The always-remove test with MMD left out of the table.
AlwaysRemove_mdr_only(f) == f.is_sf /\ f.sf_type = ID_MDR

\* `sf_type in SF_TYPES_TO_REMOVE` for a collected item (None for raw bytes)
AlwaysRemove(f) == f.is_sf /\ f.sf_type \in DOMAIN TYPES_TO_REMOVE

\* The third pass of clean_afp_advanced from field i on; acc holds output,
\* stats and the decisions taken so far.
RECURSIVE EmitFrom(_, _)
EmitFrom(i, acc) ==
    IF i >= Len(cfields) THEN acc
    ELSE LET f == cfields[i + 1]
             check == f.is_sf /\ f.sf_type \in DOMAIN TYPES_TO_CHECK
                      /\ _is_s_number(f.sf_data)
             always == AlwaysRemove(f)
             should_remove == check \/ always
             st1 == IF check THEN Bump(acc.stats, TYPES_TO_CHECK[f.sf_type])
                    ELSE acc.stats
             st2 == IF always THEN Bump(st1, TYPES_TO_REMOVE[f.sf_type]) ELSE st1
         IN  IF i \in IndicesToRemove
             THEN EmitFrom(i + 1,
                      [output |-> acc.output,
                       stats  |-> Bump(acc.stats, "total_removed"),
                       log    |-> Append(acc.log, AdvLogEntry(f, TRUE))])
             ELSE IF should_remove
             THEN EmitFrom(i + 1,
                      [output |-> acc.output,
                       stats  |-> Bump(st2, "total_removed"),
                       log    |-> Append(acc.log, AdvLogEntry(f, TRUE))])
             ELSE EmitFrom(i + 1,
                      [output |-> acc.output \o f.raw_data,
                       stats  |-> Bump(st2, "total_kept"),
                       log    |-> Append(acc.log, AdvLogEntry(f, FALSE))])

\* The third pass of clean_afp_advanced and its return.
AdvEmit ==
    /\ pc = "emit"
    /\ LET res == EmitFrom(0,
                      [output |-> <<>>,
                       stats  |-> [stats EXCEPT !["BlankPD pages"] =
                                       Cardinality(pages_to_remove)],
                       log    |-> <<>>])
       IN  /\ output' = res.output
           /\ stats' = res.stats
           /\ log' = res.log
    /\ pc' = "cleaned"
    /\ UNCHANGED <<data, pieces, variant, offset, cfields, pages_to_remove, pass,
                   first_output, frameVars, buildVars, validVars,
                   runVars>>

\* The caller cleans the cleaned bytes again with the same cleaner.
CleanAgain ==
    /\ pc = "cleaned"
    /\ pass = 1
    /\ first_output' = output
    /\ data' = output
    /\ pass' = 2
    /\ offset' = 0
    /\ output' = <<>>
    /\ cfields' = <<>>
    /\ pages_to_remove' = {}
    /\ log' = <<>>
    /\ stats' = [n \in DOMAIN stats |-> 0]
    /\ pc' = "clean"
    /\ UNCHANGED <<pieces, variant, frameVars, buildVars, validVars,
                   runVars>>

(***************************************************************************)
(* Initial values of the parts of the state a specification does not use.  *)
(***************************************************************************)
NoStats == [total_removed |-> 0, total_kept |-> 0]

InitFrame ==
    /\ sf_id = <<>> /\ payload = <<>> /\ frame_at = 0 /\ frame = NoFrame(0)

InitBuild ==
    /\ pages = <<>> /\ topology = "none"

InitValid ==
    /\ parse_offset = 0 /\ fields = <<>> /\ errors = <<>> /\ warnings = <<>>
    /\ field_idx = 0 /\ depth = ZeroDepth /\ is_valid = FALSE
    /\ first_errors = <<>>

InitClean ==
    /\ pieces = <<>> /\ variant = "none" /\ offset = 0 /\ cfields = <<>> /\ pages_to_remove = {}
    /\ output = <<>>
    /\ stats = NoStats /\ log = <<>> /\ pass = 0 /\ first_output = <<>>

Runs == 1..MaxRuns

InitRuns ==
    /\ run_status = [r \in Runs |-> "NONE"]
    /\ in_queue = [r \in Runs |-> 0]
    /\ received = [r \in Runs |-> 0]
    /\ wpc = "idle" /\ wrun = 0

(***************************************************************************)
(* Writing one frame and reading it back (SpecFrame).                      *)
(***************************************************************************)
\* EBCDIC "S0000007": the marker byte 0xE2 and seven digit bytes.
SNumber == <<226, 240, 240, 240, 240, 240, 240, 247>>

FrameTypes == {ID_BDT, ID_TLE, ID_BPS, ID_MDR, <<0, 0, 0>>, <<90, 90, 90>>}

FramePayloads ==
    {<<>>, <<0>>, <<90>>, <<90, 0, 5>>, SNumber,
     Repeat(240, 251), Repeat(90, 256), Repeat(0, 65530), Repeat(0, 65531)}

\* Bytes in front of the frame that are not a frame (no control byte).
Prefixes == {<<>>, <<0>>, <<211, 0>>}

\* result.extend(_sf(t, p)) after the bytes already in the buffer.
WriteFrame ==
    /\ pc = "frame_idle"
    /\ \E g \in Prefixes, t \in FrameTypes, p \in FramePayloads :
        /\ sf_id' = t
        /\ payload' = p
        /\ frame_at' = Len(g)
        /\ IF _sf_raises(p)
           THEN data' = g /\ pc' = "write_error"
           ELSE data' = g \o _sf(t, p) /\ pc' = "written"
    /\ UNCHANGED <<frame, buildVars, validVars, cleanVars,
                   runVars>>

\* The buffer ends k bytes after the start of the frame, inside the frame.
CutBuffer ==
    /\ pc = "written"
    /\ \E k \in 1..MaxCut :
        /\ frame_at + k < Len(data)
        /\ data' = SubSeq(data, 1, frame_at + k)
    /\ pc' = "cut"
    /\ UNCHANGED <<frameVars, buildVars, validVars, cleanVars,
                   runVars>>

\* _parse_structured_field(data, frame_at)
ReadFrame ==
    /\ pc \in {"written", "cut"}
    /\ frame' = _parse_structured_field(data, frame_at)
    /\ pc' = "read"
    /\ UNCHANGED <<data, sf_id, payload, frame_at, buildVars, validVars, cleanVars,
                   runVars>>

FrameInit ==
    /\ pc = "frame_idle" /\ data = <<>>
    /\ InitFrame /\ InitBuild /\ InitValid /\ InitClean /\ InitRuns

FrameNext ==
    \/ WriteFrame
    \/ CutBuffer
    \/ ReadFrame
    \/ NewValidator
    \/ ParseStep
    \/ ParseDone

SpecFrame == FrameInit /\ [][FrameNext]_vars

(***************************************************************************)
(* Building one index field and reading it back (SpecIndex).               *)
(***************************************************************************)
\* Names and values a caller passes: empty, short, and around the cap of 250
\* characters.  An absent value (None) takes the same branch as the empty one.
TextChoices ==
    {Repeat(c, n) : c \in {65, 97, 48}, n \in {0, 1, 2, 249, 250, MaxText}}

\* data = _build_tle(attribute_name, attribute_value)
BuildTle ==
    /\ pc = "frame_idle"
    /\ \E name \in TextChoices, value \in TextChoices :
        /\ pages' = <<[attribute_name |-> name, attribute_value |-> value]>>
        /\ data' = _build_tle(name, value)
    /\ topology' = "index"
    /\ pc' = "written"
    /\ UNCHANGED <<frameVars, validVars, cleanVars,
                   runVars>>

IndexNext ==
    \/ BuildTle
    \/ ReadFrame

SpecIndex == FrameInit /\ [][IndexNext]_vars

(***************************************************************************)
(* Building a document and validating it (SpecBuild).                      *)
(***************************************************************************)
\* Texts used as index values.
JohnDoe == <<74, 111, 104, 110, 32, 68, 111, 101>>              \* "John Doe"
MainSt == <<49, 50, 51, 32, 77, 97, 105, 110, 32, 83, 116>>     \* "123 Main St"
SNumberText == <<83, 48, 48, 48, 48, 48, 48, 55>>                \* "S0000007"

\* The pages a caller can put in the page list.
PageChoices ==
    << \* a white 8x1 raster, two index values
       [image_data |-> Repeat(255, 8), width |-> 8, height |-> 1,
        tle_data |-> [mailing_name |-> JohnDoe, mailing_addr1 |-> MainSt]],
       \* no raster, no index values
       [tle_data |-> <<>>],
       \* a 9x2 raster with samples around the threshold, all seven values given
       [image_data |-> <<0, 127, 128, 255, 0, 0, 255, 255, 127,
                         255, 128, 127, 0, 255, 255, 0, 0, 128>>,
        width |-> 9, height |-> 2,
        tle_data |-> [mailing_name |-> JohnDoe, mailing_addr1 |-> MainSt,
                      mailing_addr2 |-> <<>>, mailing_addr3 |-> <<>>,
                      return_addr1 |-> SNumberText, return_addr2 |-> <<>>,
                      return_addr3 |-> <<>>]],
       \* a raster, the page dict has no tle_data key
       [image_data |-> <<0, 90, 255>>, width |-> 3, height |-> 1] >>

\* Values of datetime.now().strftime('%Y-%m-%d %H:%M:%S')
Timestamps ==
    { <<50, 48, 50, 54, 45, 49, 49, 45, 48, 53, 32, 50, 48, 58, 49, 54, 58, 48, 48>>,
      <<49, 57, 57, 57, 45, 49, 50, 45, 51, 49, 32, 50, 51, 58, 53, 57, 58, 53, 57>> }

\* The caller appends a page to the page list.
AddPage ==
    /\ pc = "pages"
    /\ Len(pages) < MaxPages
    /\ \E i \in DOMAIN PageChoices : pages' = Append(pages, PageChoices[i])
    /\ UNCHANGED <<pc, data, topology, frameVars, validVars, cleanVars,
                   runVars>>

\* generate_afp_document(pages)
GenerateDocument ==
    /\ pc = "pages"
    /\ data' = generate_afp_document(pages, PRINTDOC, DefaultResolution,
                                     DefaultPageWidth, DefaultPageHeight)
    /\ topology' = "document"
    /\ pc' = "built"
    /\ UNCHANGED <<pages, frameVars, validVars, cleanVars,
                   runVars>>

\* generate_afp_with_resources(pages)
GenerateWithResources ==
    /\ pc = "pages"
    /\ \E now \in Timestamps :
        data' = generate_afp_with_resources(pages, PRINTDOC, DefaultResolution,
                                            DefaultPageWidth, DefaultPageHeight, now)
    /\ topology' = "resources"
    /\ pc' = "built"
    /\ UNCHANGED <<pages, frameVars, validVars, cleanVars,
                   runVars>>

BuildInit ==
    /\ pc = "pages" /\ data = <<>>
    /\ InitFrame /\ InitBuild /\ InitValid /\ InitClean /\ InitRuns

BuildNext ==
    \/ AddPage
    \/ GenerateDocument
    \/ GenerateWithResources
    \/ NewValidator
    \/ ParseStep
    \/ ParseDone
    \/ ValidateBegin
    \/ DepthStep
    \/ ValidateEnd

SpecBuild == BuildInit /\ [][BuildNext]_vars

(***************************************************************************)
(* Building the picture-data records of a raster and parsing them          *)
(* (SpecChunks).                                                           *)
(***************************************************************************)
\* Raster sizes around the multiples of the chunk size.
RasterSizes ==
    {n \in {k * max_data_per_ipd + e : k \in 0..MaxChunks, e \in {-1, 0, 1}} : n >= 0}

\* A raster of n bytes whose content depends on the position.
RasterPattern(n, k) == [i \in 1..n |-> (k * i + 146) % 256]

\* data = _build_ipd_records(image_data, width, height)
BuildIpdRecords ==
    /\ pc = "pages"
    /\ \E n \in RasterSizes, k \in {0, 1, 7}, w \in {0, 8, 65535}, h \in {1, 65535} :
        /\ pages' = <<[image_data |-> RasterPattern(n, k), width |-> w, height |-> h]>>
        /\ data' = _build_ipd_records(RasterPattern(n, k), w, h, DefaultResolution)
    /\ topology' = "ipd"
    /\ pc' = "built"
    /\ UNCHANGED <<frameVars, validVars, cleanVars,
                   runVars>>

ChunksNext ==
    \/ BuildIpdRecords
    \/ NewValidator
    \/ ParseStep
    \/ ParseDone

SpecChunks == BuildInit /\ [][ChunksNext]_vars

(***************************************************************************)
(* Cleaning a hand-built stream, then cleaning the result (SpecClean).     *)
(***************************************************************************)
\* The pieces a hand-built stream is put together from.
Pieces ==
    << \* index/grouping fields (D3 A8 5F, D3 A9 5F) whose data holds an S-number:
       \* as the whole data, and at the end of the data after three flag bytes
       _sf(<<211, 168, 95>>, SNumber),
       _sf(<<211, 169, 95>>, Flags3 \o SNumber),
       \* the same type, the marker followed by six digits only
       _sf(<<211, 168, 95>>, <<226, 240, 240, 240, 240, 240, 240, 64>>),
       \* resource mappings (MDR, MMD), and a TLE whose data holds an S-number
       _sf(ID_MDR, <<1, 2>>),
       _sf(ID_MMD, <<>>),
       _sf(ID_TLE, SNumber),
       \* a page named "BlankPD" (two flag bytes, then the name), GAD, EPG
       _sf(ID_BPG, <<0, 0>> \o EncodeCp500(Ljust(BlankPD, 8))),
       _sf(ID_GAD, <<>>),
       _sf(ID_EPG, <<>>),
       \* bytes that are no frame: a type code without its header
       <<211, 171, 204>>,
       \* a header whose length field is 2 (below the minimum of 5)
       <<90, 0, 2>>,
       \* a header declaring 13 bytes with 7 of them present
       <<90, 0, 13, 211, 168, 95, 226, 240>>,
       \* a control byte and half a length field
       <<90, 0>> >>

\* The caller appends a piece to the stream.
AppendPiece ==
    /\ pc = "input"
    /\ Len(pieces) < MaxPieces
    /\ \E i \in DOMAIN Pieces :
        /\ data' = data \o Pieces[i]
        /\ pieces' = Append(pieces, i)
    /\ UNCHANGED <<pc, variant, offset, cfields, pages_to_remove, output, stats, log,
                   pass, first_output, frameVars, buildVars, validVars,
                   runVars>>

CleanInit ==
    /\ pc = "input" /\ data = <<>>
    /\ InitFrame /\ InitBuild /\ InitValid /\ InitClean /\ InitRuns

CleanNext ==
    \/ AppendPiece
    \/ StartClean
    \/ CleanStep
    \/ CleanDone
    \/ AdvCollectStep
    \/ AdvCollectDone
    \/ AdvMarkPages
    \/ AdvEmit
    \/ CleanAgain

SpecClean == CleanInit /\ [][CleanNext]_vars

(***************************************************************************)
(* Specification SpecPages: the cleaners over hand-built streams of pages. *)
(***************************************************************************)
MyBlank1 == <<77, 121, 66, 108, 97, 110, 107, 49>>      \* "MyBlank1"
P0000001 == <<80, 48, 48, 48, 48, 48, 48, 49>>          \* "P0000001"

PagePieces ==
    << \* begin-page fields: two flag bytes and the name "BlankPD", two flag
       \* bytes and the name "MyBlank1", and the page the builder writes
       _sf(ID_BPG, <<0, 0>> \o EncodeCp500(Ljust(BlankPD, 8))),
       _sf(ID_BPG, <<0, 0>> \o EncodeCp500(MyBlank1)),
       _build_bpg(P0000001),
       \* graphics data, map page segment, end page, an index field
       _sf(ID_GAD, <<>>),
       _sf(ID_MPS, <<1>>),
       _sf(ID_EPG, <<>>),
       _sf(ID_TLE, <<0>>),
       \* a byte that is no frame
       <<0>> >>

\* The caller appends a piece to the stream of pages.
AppendPagePiece ==
    /\ pc = "input"
    /\ Len(pieces) < MaxPagePieces
    /\ \E i \in DOMAIN PagePieces :
        /\ data' = data \o PagePieces[i]
        /\ pieces' = Append(pieces, i)
    /\ UNCHANGED <<pc, variant, offset, cfields, pages_to_remove, output, stats, log,
                   pass, first_output, frameVars, buildVars, validVars,
                   runVars>>

PagesNext ==
    \/ AppendPagePiece
    \/ StartClean
    \/ CleanStep
    \/ CleanDone
    \/ AdvCollectStep
    \/ AdvCollectDone
    \/ AdvMarkPages
    \/ AdvEmit

SpecPages == CleanInit /\ [][PagesNext]_vars

(***************************************************************************)
(* Specification SpecImage: the image encoder over small rasters.          *)
(***************************************************************************)
\* Grey samples around the threshold.
Samples == <<127, 128, 255, 0>>

\* n samples: the samples above in turn from the k-th on, or all white.
RasterData(n, k) ==
    [i \in 1..n |-> IF k = 4 THEN 255 ELSE Samples[((i + k) % 4) + 1]]

\* The caller supplies one page with a raster: width, height and the
\* samples, as many as the raster has pixels, one fewer, or four.
AddRaster ==
    /\ pc = "pages"
    /\ Len(pages) = 0
    /\ \E w \in 0..MaxWidth, h \in 0..MaxHeight, k \in 0..4 :
        \E n \in {w * h, IF w * h > 0 THEN w * h - 1 ELSE 0, 4} :
            pages' = <<[image_data |-> RasterData(n, k), width |-> w, height |-> h]>>
    /\ UNCHANGED <<pc, data, topology, frameVars, validVars, cleanVars,
                   runVars>>

\* _to_bilevel(image_data, width, height) on the page's raster
ToBilevel ==
    /\ pc = "pages"
    /\ Len(pages) = 1
    /\ data' = _to_bilevel(pages[1].image_data, pages[1].width, pages[1].height)
    /\ topology' = "bilevel"
    /\ pc' = "bilevel"
    /\ UNCHANGED <<pages, frameVars, validVars, cleanVars,
                   runVars>>

\* generate_inline_image(image_data, width, height) on the page's raster
InlineImage ==
    /\ pc = "pages"
    /\ Len(pages) = 1
    /\ data' = generate_inline_image(pages[1].image_data, pages[1].width,
                                     pages[1].height, DefaultResolution)
    /\ topology' = "image"
    /\ pc' = "built"
    /\ UNCHANGED <<pages, frameVars, validVars, cleanVars,
                   runVars>>

ImageNext ==
    \/ AddRaster
    \/ ToBilevel
    \/ InlineImage
    \/ GenerateDocument
    \/ NewValidator
    \/ ParseStep
    \/ ParseDone

SpecImage == BuildInit /\ [][ImageNext]_vars

(***************************************************************************)
(* Specification SpecValid: the validator over hand-built streams whose    *)
(* fields carry the type codes of the validator's table.                   *)
(***************************************************************************)
SEG1 == <<83, 69, 71, 49>>      \* "SEG1"
SEG2 == <<83, 69, 71, 50>>      \* "SEG2"

V_BDT == _sf(<<211, 168, 167>>, Flags3 \o _to_ebcdic(PRINTDOC, 8))
V_EDT == _sf(<<211, 169, 167>>, Flags3 \o _to_ebcdic(PRINTDOC, 8))
V_BPG == _sf(<<211, 168, 168>>, Flags3 \o _to_ebcdic(P0000001, 8))
V_EPG == _sf(<<211, 169, 168>>, Flags3 \o _to_ebcdic(P0000001, 8))

\* The fields a stream body is made of: a begin and an end of each of the
\* five structures, and references to the segments SEG1 and SEG2.
ValidPieces ==
    << V_BPG, V_EPG, _build_bag, _build_eag, _build_bps(SEG1), _build_eps(SEG1),
       _build_bio(SEG1), _build_eio, _build_bog, _build_eog,
       _build_ips(SEG1), _build_ips(SEG2) >>

\* What a body is put between: one document with one page, two document
\* begins and ends around one page, and a document with a TLE in front of
\* it and a NOP behind it.
DocumentWraps ==
    << [head |-> V_BDT \o V_BPG, tail |-> V_EPG \o V_EDT],
       [head |-> V_BDT \o V_BDT \o V_BPG, tail |-> V_EPG \o V_EDT \o V_EDT],
       [head |-> _build_tle(SEG1, SEG2) \o V_BDT \o V_BPG,
        tail |-> V_EPG \o V_EDT \o _build_nop_comment(SEG1)] >>

\* The caller appends a field to the body of the stream.
AppendField ==
    /\ pc = "input"
    /\ Len(pieces) < MaxFields
    /\ \E i \in DOMAIN ValidPieces :
        /\ data' = data \o ValidPieces[i]
        /\ pieces' = Append(pieces, i)
    /\ UNCHANGED <<pc, variant, offset, cfields, pages_to_remove, output, stats, log,
                   pass, first_output, frameVars, buildVars, validVars,
                   runVars>>

\* The caller puts the body inside a document.
WrapDocument ==
    /\ pc = "input"
    /\ \E i \in DOMAIN DocumentWraps :
        data' = DocumentWraps[i].head \o data \o DocumentWraps[i].tail
    /\ pc' = "built"
    /\ UNCHANGED <<frameVars, buildVars, validVars, cleanVars,
                   runVars>>

ValidNext ==
    \/ AppendField
    \/ WrapDocument
    \/ NewValidator
    \/ ParseStep
    \/ ParseDone
    \/ ValidateBegin
    \/ DepthStep
    \/ ValidateEnd

SpecValid == CleanInit /\ [][ValidNext]_vars

(***************************************************************************)
(* Properties of framing, checked under SpecFrame.                         *)
(***************************************************************************)
\* The buffer still holds every byte the writer produced.
Uncut == Len(data) = frame_at + 6 + Len(payload)

\* C1: a frame written for a type code and a payload of at most 65530
\* bytes, read back at the offset it was written at, yields the same type
\* code, a byte-identical payload and the next offset 6 + len(payload)
\* bytes further on; the validator's parse of the same buffer yields the
\* same single field.
RoundTripFraming ==
    /\ (pc = "written") => Len(payload) <= 65530
    /\ (pc = "read" /\ Uncut) =>
          /\ frame.sf_type = sf_id
          /\ frame.sf_data = payload
          /\ frame.total_length = 6 + Len(payload)
          /\ frame.next_offset = frame_at + 6 + Len(payload)
    /\ (pc = "parsed" /\ Uncut) =>
          /\ Len(fields) = 1
          /\ fields[1].sf_id = sf_id
          /\ fields[1].data = payload
          /\ fields[1].offset = frame_at
          /\ parse_offset = frame_at + 6 + Len(payload)

\* C1 witness: a payload whose length needs both length bytes was written
\* at offset 0 and read back whole.
RoundTripFramingWitness ==
    /\ pc = "read" /\ Uncut
    /\ frame_at = 0
    /\ Len(payload) = 256
    /\ frame.sf_data = payload
    /\ frame.next_offset = 262

\* C8: when fewer than 6 bytes remain at a control byte, reading a frame
\* reports a truncated header: total length 0 and the next offset equal to
\* the buffer length.
TruncatedHeader ==
    (pc = "read" /\ frame_at < Len(data) /\ Len(data) - frame_at < 6
        /\ At(data, frame_at) = CC) =>
          /\ frame.total_length = 0
          /\ frame.sf_type = <<>>
          /\ frame.sf_data = <<>>
          /\ frame.next_offset = Len(data)

\* C8 witness: a frame behind two stray bytes was cut after its two length
\* bytes and one byte of its type code, then read.
TruncatedHeaderWitness ==
    /\ pc = "read"
    /\ frame_at = 2
    /\ Len(data) = frame_at + 4
    /\ At(data, frame_at) = CC
    /\ frame.total_length = 0
    /\ frame.next_offset = Len(data)

\* C9: a frame is never returned with a payload shorter than its declared
\* length or with a next offset beyond the end of the buffer: a header that
\* declares more bytes than the buffer holds makes the read fail.
TruncatedBodyFails ==
    (pc = "read" /\ frame.total_length # 0) =>
          /\ frame.next_offset <= Len(data)
          /\ Len(frame.sf_data) = frame.total_length - 6

(***************************************************************************)
(* Properties of built documents, checked under SpecBuild.  The stream is  *)
(* read through the fields the validator's parse collected; a field is     *)
(* recognised by the builder's own type code (sf_id).                      *)
(***************************************************************************)
\* The indices of the parsed fields that carry the type code id.
Positions(id) == {i \in 1..Len(fields) : fields[i].sf_id = id}

\* The n-th index (in stream order) of a set of field indices.
Nth(S, n) == CHOOSE i \in S : Cardinality({j \in S : j < i}) = n - 1

\* How many fields with type code id lie strictly between indices a and b.
CountBetween(id, a, b) == Cardinality({i \in Positions(id) : a < i /\ i < b})

\* The whole built stream was split into fields, without a framing error.
ParsedWhole == pc = "parsed" /\ Len(errors) = 0 /\ parse_offset = Len(data)

UnclosedMessages ==
    {"Unclosed pages", "Unclosed AEG", "Unclosed segments",
     "Unclosed images", "Unclosed OEG"}

\* C2: for any page list, the validator reports no unclosed-depth error
\* (page, active environment group, page segment, image object, object
\* environment group) on the document built by generate_afp_document or by
\* generate_afp_with_resources.
DepthInvariant ==
    (pc = "validated") =>
        /\ \A i \in 1..Len(errors) : errors[i].msg \notin UnclosedMessages
        /\ depth = ZeroDepth

\* C2 witness: a two-page document with page segments, image objects and
\* object environment groups went through the depth loop and ended with
\* every counter at zero.
DepthInvariantWitness ==
    /\ pc = "validated"
    /\ topology = "resources"
    /\ Len(pages) = 2
    /\ HasCode("BPS") /\ HasCode("BIO") /\ HasCode("BOG") /\ HasCode("BAG")
    /\ field_idx = Len(fields)
    /\ depth = ZeroDepth

\* C3: validating the output of generate_afp_document for one page that
\* carries a raster and index values returns is_valid = true with an empty
\* error list.
MinimalDocumentValid ==
    (/\ pc = "validated"
     /\ topology = "document"
     /\ Len(pages) = 1
     /\ HasImage(pages[1])
     /\ TleValue(pages[1], "mailing_name") # <<>>) =>
        /\ is_valid
        /\ Len(errors) = 0

SevenTleInsidePage ==
    (pc = "parsed" /\ topology \in {"document", "resources"}) =>
        /\ Cardinality(Positions(ID_BPG)) = Len(pages)
        /\ Cardinality(Positions(ID_EPG)) = Len(pages)
        /\ \A n \in 1..Len(pages) :
              CountBetween(ID_TLE, Nth(Positions(ID_BPG), n),
                                   Nth(Positions(ID_EPG), n)) = 7

\* C6 amended: every page gets exactly seven TLE fields whatever number of
\* its index values are empty or absent; generate_afp_document puts them
\* between the page's BPG and EPG, generate_afp_with_resources puts them
\* between the page's BNG and its BPG, inside the named page group and
\* outside the page.
SevenTlePerPage ==
    (pc = "parsed" /\ topology \in {"document", "resources"}) =>
        /\ ParsedWhole
        /\ Cardinality(Positions(ID_BPG)) = Len(pages)
        /\ Cardinality(Positions(ID_EPG)) = Len(pages)
        /\ Cardinality(Positions(ID_TLE)) = 7 * Len(pages)
        /\ topology = "document" =>
              \A n \in 1..Len(pages) :
                  CountBetween(ID_TLE, Nth(Positions(ID_BPG), n),
                                       Nth(Positions(ID_EPG), n)) = 7
        /\ topology = "resources" =>
              /\ Cardinality(Positions(ID_BNG)) = Len(pages)
              /\ Cardinality(Positions(ID_ENG)) = Len(pages)
              /\ \A n \in 1..Len(pages) :
                    /\ CountBetween(ID_TLE, Nth(Positions(ID_BNG), n),
                                            Nth(Positions(ID_BPG), n)) = 7
                    /\ CountBetween(ID_TLE, Nth(Positions(ID_BPG), n),
                                            Nth(Positions(ID_EPG), n)) = 0
                    /\ Nth(Positions(ID_EPG), n) < Nth(Positions(ID_ENG), n)

\* C6 witness: a document with resources was built from a page without any
\* index value and a page with empty index values, and was parsed; each
\* page still has seven TLE fields in front of its BPG.
SevenTlePerPageWitness ==
    /\ pc = "parsed"
    /\ topology = "resources"
    /\ Len(pages) = 2
    /\ "tle_data" \notin DOMAIN pages[1]
    /\ "tle_data" \in DOMAIN pages[2]
    /\ TleValue(pages[2], "mailing_addr2") = <<>>
    /\ CountBetween(ID_TLE, Nth(Positions(ID_BNG), 2),
                            Nth(Positions(ID_BPG), 2)) = 7

(***************************************************************************)
(* Properties of the cleaners, checked under SpecClean.  log holds one     *)
(* entry per item the scan parsed: its type code, payload, raw bytes and   *)
(* whether the cleaner dropped it.                                         *)
(***************************************************************************)
\* The type codes of BNG, ENG, BIE, EIE and IEL.
IndexTypes ==
    {<<211, 168, 95>>, <<211, 169, 95>>, <<211, 168, 251>>, <<211, 169, 251>>,
     <<211, 175, 95>>}

\* The type codes of MDR and MMD.
MappingTypes == {<<211, 171, 204>>, <<211, 171, 202>>}

\* The payload holds, at some position, 0xE2 and right after it seven bytes
\* in 0xF0..0xF9.
HasSPattern(d) ==
    \E k \in 1..Len(d) :
        /\ k + 7 <= Len(d)
        /\ d[k] = 226
        /\ \A j \in 1..7 : d[k + j] \in 240..249

\* The raw bytes of the first n logged items that were not dropped.
RECURSIVE KeptBytes(_)
KeptBytes(n) ==
    IF n = 0 THEN <<>>
    ELSE KeptBytes(n - 1) \o (IF log[n].removed THEN <<>> ELSE log[n].raw)

\* The i-th logged item lies inside a page clean_afp_advanced drops.
InDroppedPage(i) ==
    \E pr \in pages_to_remove : pr[1] <= i - 1 /\ i - 1 <= pr[2]

\* C5: cleaning the output of a cleaner again with the same cleaner gives
\* the same bytes, for clean_afp and for clean_afp_advanced.
IdempotentCleaning ==
    (pc = "cleaned" /\ pass = 2) => output = first_output

\* C7: clean_afp removes a field of type BNG, ENG, BIE, EIE or IEL if and
\* only if its payload contains 0xE2 followed immediately by seven EBCDIC
\* digits; without the pattern the field's bytes are in the output.
ContentPatternRemoval ==
    (variant = "clean_afp" /\ pc \in {"clean", "cleaned"}) =>
        /\ \A i \in 1..Len(log) :
              (log[i].is_sf /\ log[i].sf_type \in IndexTypes) =>
                  (log[i].removed <=> HasSPattern(log[i].sf_data))
        /\ output = KeptBytes(Len(log))

\* C7 witness: clean_afp finished a stream with a BNG whose payload is the
\* pattern, which it dropped, and a BNG whose payload has only six digits
\* after 0xE2, which it kept.
ContentPatternRemovalWitness ==
    /\ pc = "cleaned" /\ variant = "clean_afp" /\ pass = 1
    /\ \E i, j \in 1..Len(log) :
          /\ log[i].is_sf /\ log[i].sf_type = <<211, 168, 95>>
          /\ log[i].sf_data = SNumber
          /\ log[i].removed
          /\ log[j].is_sf /\ log[j].sf_type = <<211, 168, 95>>
          /\ log[j].sf_data # SNumber
          /\ ~log[j].removed
          /\ output = log[j].raw

\* C10 as stated: a cleaner removes every field whose type code is MDR or
\* MMD.
MappingsAlwaysRemoved ==
    (pc = "cleaned") =>
        \A i \in 1..Len(log) :
            (log[i].is_sf /\ log[i].sf_type \in MappingTypes) => log[i].removed

\* C10 amended: clean_afp_advanced removes every field whose type code is
\* MDR or MMD whatever its payload, clean_afp removes none of them; in both
\* cleaners every item that matches no removal predicate of that cleaner
\* (index type with the pattern; for clean_afp_advanced also MDR/MMD and
\* the fields of a dropped page) is in the output byte-identical.
AlwaysRemoveSet ==
    (pc = "cleaned") =>
        /\ \A i \in 1..Len(log) :
              LET e == log[i]
                  pattern == e.is_sf /\ e.sf_type \in IndexTypes
                             /\ HasSPattern(e.sf_data)
                  mapping == e.is_sf /\ e.sf_type \in MappingTypes
              IN  /\ (variant = "clean_afp_advanced" /\ mapping) => e.removed
                  /\ (variant = "clean_afp" /\ mapping) => ~e.removed
                  /\ (variant = "clean_afp" /\ ~pattern) => ~e.removed
                  /\ (variant = "clean_afp_advanced" /\ ~pattern /\ ~mapping
                        /\ ~InDroppedPage(i)) => ~e.removed
        /\ output = KeptBytes(Len(log))

\* C10 witness: clean_afp_advanced finished a stream that holds an MDR, an
\* MMD and a TLE; both mappings were dropped and the output is the TLE.
AlwaysRemoveSetWitness ==
    /\ pc = "cleaned" /\ variant = "clean_afp_advanced" /\ pass = 1
    /\ \E i, j, k \in 1..Len(log) :
          /\ log[i].is_sf /\ log[i].sf_type = <<211, 171, 204>> /\ log[i].removed
          /\ log[j].is_sf /\ log[j].sf_type = <<211, 171, 202>> /\ log[j].removed
          /\ log[k].is_sf /\ log[k].sf_type = ID_TLE /\ ~log[k].removed
          /\ output = log[k].raw

(***************************************************************************)
(* Properties of page-range removal, checked under SpecPages.  A page is   *)
(* a begin-page item and the next end-page item with no begin-page or      *)
(* end-page item between them, given by their positions in cfields.        *)
(***************************************************************************)
IsBeginPage(i) == cfields[i].is_sf /\ cfields[i].sf_type = <<211, 168, 175>>

IsEndPage(i) == cfields[i].is_sf /\ cfields[i].sf_type = <<211, 169, 175>>

PagePairs ==
    {pr \in (1..Len(cfields)) \X (1..Len(cfields)) :
        /\ pr[1] < pr[2]
        /\ IsBeginPage(pr[1]) /\ IsEndPage(pr[2])
        /\ \A k \in (pr[1] + 1)..(pr[2] - 1) : ~IsBeginPage(k) /\ ~IsEndPage(k)}

\* The name of the page that begins at item s: bytes 2..9 of the payload,
\* decoded and stripped; no name when the payload has fewer than 10 bytes.
PageNameAt(s) ==
    IF Len(cfields[s].sf_data) < 10 THEN <<>>
    ELSE Strip(DecodeCp500(SubSeq(cfields[s].sf_data, 3, 10)))

\* The page is named "BlankPD" or its name contains "Blank", and a GAD or
\* MPS field lies between its begin and its end.
IsBlankOverlay(pr) ==
    /\ \/ PageNameAt(pr[1]) = <<66, 108, 97, 110, 107, 80, 68>>
       \/ Contains(PageNameAt(pr[1]), <<66, 108, 97, 110, 107>>)
    /\ \E k \in (pr[1] + 1)..(pr[2] - 1) :
          cfields[k].is_sf
          /\ cfields[k].sf_type \in {<<211, 177, 138>>, <<211, 177, 155>>}

RECURSIVE SumStats(_)
SumStats(S) ==
    IF S = {} THEN 0
    ELSE LET k == CHOOSE x \in S : TRUE
         IN  stats[k] + SumStats(S \ {k})

\* C12: after clean_afp and after clean_afp_advanced, total_removed +
\* total_kept equals the number of structured fields parsed from the input,
\* and total_removed equals the sum of the per-type-code removal counts.
RemovalTally ==
    (pc = "cleaned") =>
        /\ stats["total_removed"] + stats["total_kept"]
              = Cardinality({i \in 1..Len(log) : log[i].is_sf})
        /\ stats["total_removed"]
              = SumStats(DOMAIN stats \ {"total_removed", "total_kept", "BlankPD pages"})

(***************************************************************************)
(* Properties of the validator, checked under SpecValid.                   *)
(***************************************************************************)
\* The five structures: depth counter, begin code, end code, the words of
\* the "unclosed" error and of the dangling-end error.
Structures ==
    { [counter |-> "page_depth", begin |-> "BPG", end |-> "EPG",
       unclosed |-> "Unclosed pages", dangling |-> "EPG without matching BPG"],
      [counter |-> "aeg_depth", begin |-> "BAG", end |-> "EAG",
       unclosed |-> "Unclosed AEG", dangling |-> "EAG without matching BAG"],
      [counter |-> "segment_depth", begin |-> "BPS", end |-> "EPS",
       unclosed |-> "Unclosed segments", dangling |-> "EPS without matching BPS"],
      [counter |-> "image_depth", begin |-> "BIO", end |-> "EIO",
       unclosed |-> "Unclosed images", dangling |-> "EIO without matching BIO"],
      [counter |-> "oeg_depth", begin |-> "BOG", end |-> "EOG",
       unclosed |-> "Unclosed OEG", dangling |-> "EOG without matching BOG"] }

\* How many begins of structure st among the first n fields are still open
\* when every end closes the latest open begin, if there is one.
RECURSIVE OpenBegins(_, _)
OpenBegins(st, n) ==
    IF n = 0 THEN 0
    ELSE LET before == OpenBegins(st, n - 1)
         IN  IF fields[n].code = st.begin THEN before + 1
             ELSE IF fields[n].code = st.end /\ before > 0 THEN before - 1
             ELSE before

\* C13: for each of the five begin/end pairs the validator records an
\* error when an end is seen while no begin is open, and the pair's depth
\* counter never becomes negative at any point of the pass.
DanglingEnd ==
    (pc \in {"depth", "validated"}) =>
        \A st \in Structures :
            /\ \A n \in 1..field_idx :
                  (fields[n].code = st.end /\ OpenBegins(st, n - 1) = 0) =>
                      \E i \in 1..Len(errors) :
                          errors[i].msg = st.dangling /\ errors[i].arg = n
            /\ depth[st.counter] >= 0

\* C14: after the pass an "unclosed" error naming the count is reported for
\* a structure exactly when some begin of it has no matching later end,
\* also when a dangling end precedes the begin.
UnclosedBegin ==
    (pc = "validated") =>
        \A st \in Structures :
            LET open == OpenBegins(st, Len(fields))
            IN  /\ open > 0 =>
                      \E i \in 1..Len(errors) :
                          errors[i].msg = st.unclosed /\ errors[i].arg = open
                /\ open = 0 =>
                      \A i \in 1..Len(errors) : errors[i].msg # st.unclosed

\* How many parsed fields the validator's table names c.
CountCode(c) == Cardinality({i \in 1..Len(fields) : fields[i].code = c})

HasError(msg) == \E i \in 1..Len(errors) : errors[i].msg = msg

HasWarning(msg) == \E i \in 1..Len(warnings) : warnings[i].msg = msg

\* C15 as stated: the validator accepts a stream only if exactly one BDT
\* and exactly one EDT exist.
ExactlyOneDocument ==
    (pc = "validated" /\ is_valid) =>
        CountCode("BDT") = 1 /\ CountCode("EDT") = 1

\* C15 amended: the validator reports an error when no BDT or no EDT
\* exists and does not count them: a stream with two or more BDT or EDT
\* fields can be accepted, no error speaks of their number, and fields
\* behind the first EDT, a second EDT included, only yield the warning
\* "Fields appear after EDT".
DocumentBoundsPresent ==
    (pc = "validated") =>
        /\ HasError("Missing BDT (Begin Document)") <=> CountCode("BDT") = 0
        /\ HasError("Missing EDT (End Document)") <=> CountCode("EDT") = 0
        /\ is_valid => (CountCode("BDT") >= 1 /\ CountCode("EDT") >= 1)
        /\ HasWarning("Fields appear after EDT") <=>
              \E i \in 1..(Len(fields) - 1) : fields[i].code = "EDT"
        /\ \A i \in 1..Len(errors) :
              errors[i].msg \in
                  {"Missing BDT (Begin Document)", "Missing EDT (End Document)",
                   "Missing BPG (Begin Page)", "Missing EPG (End Page)",
                   "Nested BPG (page inside page)"}
                  \cup {st.dangling : st \in Structures}
                  \cup {st.unclosed : st \in Structures}

\* C15 witness: a stream with two BDT and two EDT fields around one page
\* was validated and accepted.
DocumentBoundsPresentWitness ==
    /\ pc = "validated"
    /\ is_valid
    /\ CountCode("BDT") = 2 /\ CountCode("EDT") = 2
    /\ HasWarning("Fields appear after EDT")

\* C16: validate_afp_bytes returns is_valid = true exactly when the error
\* list is empty, whatever the warnings are, and every stream gets a
\* verdict: no step of parsing or validating fails to return.
ValidityVerdict ==
    /\ (pc = "validated") => (is_valid <=> Len(errors) = 0)
    /\ (pc \in {"parse", "parsed", "depth"}) =>
          ENABLED (ParseStep \/ ParseDone \/ ValidateBegin \/ DepthStep \/ ValidateEnd)

\* C16 witness: a stream was accepted although it raised the warnings about
\* a field in front of BDT, fields behind EDT and an undefined segment.
ValidityVerdictWitness ==
    /\ pc = "validated"
    /\ is_valid
    /\ HasWarning("Field appears before BDT")
    /\ HasWarning("Fields appear after EDT")
    /\ HasWarning("IPS references undefined segment")

\* The parsed fields with code c that are long enough to carry a name.
NamedFields(c) == {i \in 1..Len(fields) : fields[i].code = c /\ Len(fields[i].data) >= 11}

\* The name a field carries: the 8 bytes behind its 3 flag bytes, as text
\* without surrounding blanks.
FieldName(i) == Strip(DecodeCp500(SubSeq(fields[i].data, 4, 11)))

UndefinedSegment == "IPS references undefined segment"

\* C17: the validator warns of an undefined segment for the name of an
\* include-page-segment field if and only if no begin-page-segment field
\* with that name occurs anywhere in the stream, before or after the
\* reference; such a reference never produces an error.
SegmentReferences ==
    (pc = "validated") =>
        /\ \A i \in NamedFields("IPS") :
              (\E w \in 1..Len(warnings) :
                    warnings[w].msg = UndefinedSegment /\ warnings[w].arg = FieldName(i))
              <=> ~(\E b \in NamedFields("BPS") : FieldName(b) = FieldName(i))
        /\ \A w \in 1..Len(warnings) :
              warnings[w].msg = UndefinedSegment =>
                  \E i \in NamedFields("IPS") : FieldName(i) = warnings[w].arg
        /\ ~HasError(UndefinedSegment)

\* C17 witness: a reference to SEG1 in front of the segment SEG1 and a
\* reference to SEG2 were validated; only SEG2 is warned of.
SegmentReferencesWitness ==
    /\ pc = "validated"
    /\ \E i \in NamedFields("IPS"), b \in NamedFields("BPS") :
          i < b /\ FieldName(i) = SEG1 /\ FieldName(b) = SEG1
    /\ \E w \in 1..Len(warnings) :
          warnings[w].msg = UndefinedSegment /\ warnings[w].arg = SEG2
    /\ \A w \in 1..Len(warnings) :
          warnings[w].msg = UndefinedSegment => warnings[w].arg # SEG1

(***************************************************************************)
(* Properties of the image encoder, checked under SpecImage.               *)
(***************************************************************************)
\* Bit 0x80 >> (x mod 8) of a byte.
BitOf(byte, x) == (byte \div (2 ^ (7 - (x % 8)))) % 2

\* The number of bytes that hold w bits.
BytesFor(w) == IF w % 8 = 0 THEN w \div 8 ELSE (w \div 8) + 1

\* C18: building a document or an image object from a raster whose width
\* or height is zero returns no byte stream.
ZeroDimensionsRejected ==
    (/\ pc = "built"
     /\ topology \in {"image", "document"}
     /\ Len(pages) = 1
     /\ HasImage(pages[1])
     /\ (pages[1].width = 0 \/ pages[1].height = 0)) =>
        data = <<>>

\* The raster bytes the image object carries: the data of its second IPD
\* field without the three leading bytes and the four-byte trailer.
EmittedRaster ==
    LET f == fields[Nth(Positions(ID_IPD), 2)]
    IN  SubSeq(f.data, 4, Len(f.data) - 4)

\* C19: when a raster's width is not a multiple of 8, the image encoder
\* rounds the width up to the next multiple of 8 and every added
\* right-hand pixel encodes as bit 0 in every row of the bilevel output.
PaddingIsBackground ==
    (/\ pc = "parsed"
     /\ topology = "image"
     /\ pages[1].width > 0 /\ pages[1].height > 0
     /\ pages[1].width % 8 # 0) =>
        LET w == pages[1].width
            h == pages[1].height
            bpr == BytesFor(w)
        IN  /\ Cardinality(Positions(ID_IPD)) = 2
            /\ Len(EmittedRaster) = bpr * h
            /\ \A y \in 0..(h - 1) : \A x \in w..(bpr * 8 - 1) :
                  BitOf(EmittedRaster[y * bpr + (x \div 8) + 1], x) = 0

\* C20: _to_bilevel sets the bit of pixel (x, y), bit 0x80 >> (x mod 8) of
\* byte y*ceil(w/8) + x div 8, to 1 exactly when the pixel's sample is
\* strictly below 128; a pixel without a sample and the bits behind the
\* last pixel of a row are 0; the output has ceil(w/8)*h bytes.
BilevelThreshold ==
    (pc = "bilevel") =>
        LET gray == pages[1].image_data
            w == pages[1].width
            h == pages[1].height
            bpr == BytesFor(w)
        IN  /\ Len(data) = bpr * h
            /\ \A y \in 0..(h - 1) : \A x \in 0..(bpr * 8 - 1) :
                  LET idx == y * w + x
                      bit == BitOf(data[y * bpr + (x \div 8) + 1], x)
                  IN  IF x < w /\ idx < Len(gray)
                      THEN bit = 1 <=> gray[idx + 1] < 128
                      ELSE bit = 0

\* C20 witness: a 9x2 raster with samples 127 and 128 in its first row was
\* converted: the output has 4 bytes, the pixel with sample 127 has its bit
\* set and the pixel with sample 128 has not.
BilevelThresholdWitness ==
    /\ pc = "bilevel"
    /\ pages[1].width = 9 /\ pages[1].height = 2
    /\ Len(pages[1].image_data) = 18
    /\ pages[1].image_data[1] = 127 /\ pages[1].image_data[2] = 128
    /\ Len(data) = 4
    /\ BitOf(data[1], 0) = 1 /\ BitOf(data[1], 1) = 0

(***************************************************************************)
(* Parsing a stream that holds framing errors (SpecResync).                *)
(***************************************************************************)
\* The pieces of such a stream: a byte that is no control byte, a frame whose
\* length is below 5, a frame whose declared length passes the end of the
\* buffer, and two well-formed frames.
ResyncPieces ==
    << <<0>>,
       <<90, 0, 3, 211, 168, 198>>,
       <<90, 0, 50, 211, 168, 198>>,
       _sf(ID_TLE, <<1>>),
       _sf(ID_NOP, <<>>) >>

WellFormedPieces == {4, 5}

\* The caller appends a piece to the stream.
AppendResyncPiece ==
    /\ pc = "input"
    /\ Len(pieces) < MaxResync
    /\ \E i \in DOMAIN ResyncPieces :
        /\ data' = data \o ResyncPieces[i]
        /\ pieces' = Append(pieces, i)
    /\ UNCHANGED <<pc, variant, offset, cfields, pages_to_remove, output, stats, log,
                   pass, first_output, frameVars, buildVars, validVars,
                   runVars>>

ResyncNext ==
    \/ AppendResyncPiece
    \/ NewValidator
    \/ ParseStep
    \/ ParseDone

SpecResync == CleanInit /\ [][ResyncNext]_vars

(***************************************************************************)
(* The three scan loops over a stream with framing errors, each running    *)
(* to its end once started (SpecScan).                                     *)
(***************************************************************************)
ScanNext ==
    \/ AppendResyncPiece
    \/ NewValidator
    \/ ParseStep
    \/ ParseDone
    \/ StartClean
    \/ CleanStep
    \/ CleanDone
    \/ AdvCollectStep
    \/ AdvCollectDone

\* A loop that was entered keeps running: the program is sequential.
SpecScan ==
    /\ CleanInit /\ [][ScanNext]_vars
    /\ WF_vars(ParseStep \/ ParseDone)
    /\ WF_vars(CleanStep \/ CleanDone)
    /\ WF_vars(AdvCollectStep \/ AdvCollectDone)

(***************************************************************************)
(* Validating a stream, cleaning it and validating the result              *)
(* (SpecBalance).                                                          *)
(***************************************************************************)
\* Begin and end fields of page segments and image objects, named by an
\* S-number ("S0000007") or by another name; End Image Object has no name.
NestPieces ==
    << _build_bio(SNumberText),
       _build_eio,
       _build_bps(SNumberText),
       _build_eps(SNumberText),
       _build_bio(SEG1),
       _build_bps(SEG1),
       _build_eps(SEG1) >>

\* The caller appends a field to the stream.
AppendNestPiece ==
    /\ pc = "input"
    /\ Len(pieces) < MaxNest
    /\ \E i \in DOMAIN NestPieces :
        /\ data' = data \o NestPieces[i]
        /\ pieces' = Append(pieces, i)
    /\ UNCHANGED <<pc, variant, offset, cfields, pages_to_remove, output, stats, log,
                   pass, first_output, frameVars, buildVars, validVars,
                   runVars>>

\* validate_afp_bytes(cleaned) after validate_afp_bytes(input_data): the
\* findings about the input are kept aside.
Revalidate ==
    /\ pc = "validated"
    /\ pass = 1
    /\ first_errors' = errors
    /\ data' = output
    /\ pass' = 2
    /\ pc' = "parse"
    /\ parse_offset' = 0
    /\ fields' = <<>>
    /\ errors' = <<>>
    /\ warnings' = <<>>
    /\ field_idx' = 0
    /\ depth' = ZeroDepth
    /\ is_valid' = FALSE
    /\ UNCHANGED <<pieces, variant, offset, cfields, pages_to_remove, output, stats,
                   log, first_output, frameVars, buildVars,
                   runVars>>

BalanceNext ==
    \/ AppendNestPiece
    \/ StartClean
    \/ CleanStep
    \/ CleanDone
    \/ AdvCollectStep
    \/ AdvCollectDone
    \/ AdvMarkPages
    \/ AdvEmit
    \/ NewValidator
    \/ ParseStep
    \/ ParseDone
    \/ ValidateBegin
    \/ DepthStep
    \/ ValidateEnd
    \/ Revalidate

SpecBalance == CleanInit /\ [][BalanceNext]_vars

(***************************************************************************)
(* Building a document and cleaning it (SpecBuildClean).                   *)
(***************************************************************************)
\* The scan of clean_afp is followed to its end; a run of clean_afp_advanced
\* that StartClean may choose is left where it starts.
BuildCleanNext ==
    \/ AddPage
    \/ GenerateDocument
    \/ GenerateWithResources
    \/ StartClean
    \/ CleanStep
    \/ CleanDone

SpecBuildClean == BuildInit /\ [][BuildCleanNext]_vars

(***************************************************************************)
(* Runs: the API creates them, the queue delivers their messages, the      *)
(* worker processes them (SpecRuns).                                       *)
(***************************************************************************)
otherVars == <<pc, data, frameVars, buildVars, validVars, cleanVars>>

\* create_job_run: insert the run with status QUEUED, commit, send its message.
CreateJobRun ==
    /\ \E r \in Runs :
        /\ run_status[r] = "NONE"
        /\ run_status' = [run_status EXCEPT ![r] = "QUEUED"]
        /\ in_queue' = [in_queue EXCEPT ![r] = 1]
    /\ UNCHANGED <<received, wpc, wrun, otherVars>>

\* The queue delivers at least once: the message of a run that was handed
\* out before is in the queue again.
Redeliver ==
    /\ \E r \in Runs :
        /\ received[r] >= 1
        /\ received[r] < MaxDeliveries
        /\ in_queue[r] = 0
        /\ in_queue' = [in_queue EXCEPT ![r] = 1]
    /\ UNCHANGED <<run_status, received, wpc, wrun, otherVars>>

\* A run that has not ended is cancelled: its status is set to CANCELED.
CancelRun ==
    /\ \E r \in Runs :
        /\ run_status[r] \in {"QUEUED", "RUNNING"}
        /\ run_status' = [run_status EXCEPT ![r] = "CANCELED"]
    /\ UNCHANGED <<in_queue, received, wpc, wrun, otherVars>>

\* run: receive_message hands one message to the worker.
ReceiveMessage ==
    /\ wpc = "idle"
    /\ \E r \in Runs :
        /\ in_queue[r] > 0
        /\ in_queue' = [in_queue EXCEPT ![r] = in_queue[r] - 1]
        /\ received' = [received EXCEPT ![r] = received[r] + 1]
        /\ wrun' = r
    /\ wpc' = "begin"
    /\ UNCHANGED <<run_status, otherVars>>

\* process_message, first transaction: return when the run is missing or
\* CANCELED, set RUNNING otherwise.
BeginProcessing ==
    /\ wpc = "begin"
    /\ IF run_status[wrun] \in {"NONE", "CANCELED"}
       THEN run_status' = run_status /\ wpc' = "delete"
       ELSE run_status' = [run_status EXCEPT ![wrun] = "RUNNING"] /\ wpc' = "work"
    /\ UNCHANGED <<in_queue, received, wrun, otherVars>>

\* update_run_status(run_id, status=...): set the status of the run if it exists.
update_run_status(run_id, status) ==
    IF run_status[run_id] = "NONE" THEN run_status
    ELSE [run_status EXCEPT ![run_id] = status]

\* process_message, the rest: FAILED when the return address is missing or
\* an exception reaches the worker loop, SUCCEEDED after the outputs are stored.
FinishProcessing ==
    /\ wpc = "work"
    /\ \E status \in {"FAILED", "SUCCEEDED"} :
        run_status' = update_run_status(wrun, status)
    /\ wpc' = "delete"
    /\ UNCHANGED <<in_queue, received, wrun, otherVars>>

\* run: delete_message in the finally block; the worker waits for the next message.
DeleteMessage ==
    /\ wpc = "delete"
    /\ wpc' = "idle"
    /\ wrun' = 0
    /\ UNCHANGED <<run_status, in_queue, received, otherVars>>

RunsInit ==
    /\ pc = "runs" /\ data = <<>>
    /\ InitFrame /\ InitBuild /\ InitValid /\ InitClean /\ InitRuns

RunsNext ==
    \/ CreateJobRun
    \/ Redeliver
    \/ CancelRun
    \/ ReceiveMessage
    \/ BeginProcessing
    \/ FinishProcessing
    \/ DeleteMessage

SpecRuns == RunsInit /\ [][RunsNext]_vars

(***************************************************************************)
(* Properties of the index field, checked under SpecIndex.                 *)
(***************************************************************************)
\* C21: a TLE field built by _build_tle holds, after its 3 flag bytes, a name
\* sub-record (id 0x02) followed by a value sub-record (id 0x36, 2 reserved
\* bytes), both present also when the value is empty; the leading length
\* byte of each equals the sub-record's byte length and is at most 255; the
\* texts are cut at 250 characters.
IndexSubRecords ==
    (pc = "read" /\ topology = "index") =>
        LET d == frame.sf_data
            name == Take(pages[1].attribute_name, 250)
            value == Take(pages[1].attribute_value, 250)
            n == 4 + Len(name)
            v == 4 + Len(value)
        IN  /\ frame.sf_type = ID_TLE
            /\ Len(d) = 3 + n + v
            /\ SubSeq(d, 1, 3) = <<0, 0, 0>>
            /\ d[4] = n /\ n <= 255
            /\ d[5] = 2
            /\ SubSeq(d, 8, 3 + n) = EncodeCp500(name)
            /\ d[3 + n + 1] = v /\ v <= 255
            /\ d[3 + n + 2] = 54
            /\ SubSeq(d, 3 + n + 3, 3 + n + 4) = <<0, 0>>
            /\ SubSeq(d, 3 + n + 5, Len(d)) = EncodeCp500(value)

\* C21 witness: a field built from a 251-character name and an empty value
\* was read back; its name sub-record has length byte 254 and its value
\* sub-record is the 4 bytes 04 36 00 00.
IndexSubRecordsWitness ==
    /\ pc = "read" /\ topology = "index"
    /\ Len(pages[1].attribute_name) = 251
    /\ pages[1].attribute_value = <<>>
    /\ frame.sf_data[4] = 254
    /\ SubSeq(frame.sf_data, 258, 261) = <<4, 54, 0, 0>>
    /\ Len(frame.sf_data) = 261

(***************************************************************************)
(* Properties of the picture-data records, checked under SpecChunks: the   *)
(* parsed fields are the records, the first one the header record.         *)
(***************************************************************************)
EndImageContent == <<147, 0, 113, 0>>

\* ceil(n / d)
CeilDiv(n, d) == (n + d - 1) \div d

\* The number of data records parsed.
DataFrames == Len(fields) - 1

\* The raster bytes of data record j: its data without the 3 flag bytes,
\* without the 4-byte marker in every record but the first, and without the
\* 4-byte trailer in the last one.
ChunkOf(j) ==
    LET d == fields[j + 1].data
    IN  SubSeq(d, IF j = 1 THEN 4 ELSE 8,
                  IF j = DataFrames THEN Len(d) - 4 ELSE Len(d))

RECURSIVE ChunksUpTo(_)
ChunksUpTo(j) == IF j = 0 THEN <<>> ELSE ChunksUpTo(j - 1) \o ChunkOf(j)

\* C22: for a raster of n bytes _build_ipd_records emits one header record
\* without raster bytes, then exactly ceil(n/8180) data records of 1 to 8180
\* raster bytes each, and the raster bytes of the data records in order are
\* the input raster.
ChunkReassembly ==
    (pc = "parsed" /\ topology = "ipd") =>
        LET n == Len(pages[1].image_data)
        IN  /\ Len(fields) >= 1
            /\ \A i \in DOMAIN fields : fields[i].code = "IPD"
            /\ Len(fields[1].data) = 33
            /\ SubSeq(fields[1].data, 30, 33)
                   = <<254, 146>> \o PackH(Min(n, 8180))
            /\ DataFrames = CeilDiv(n, 8180)
            /\ \A j \in 1..DataFrames :
                  Len(ChunkOf(j)) >= 1 /\ Len(ChunkOf(j)) <= 8180
            /\ ChunksUpTo(DataFrames) = pages[1].image_data

\* C22 witness: a raster of 8181 bytes was split in two data records, of
\* 8180 bytes and of 1 byte.
ChunkReassemblyWitness ==
    /\ pc = "parsed" /\ topology = "ipd"
    /\ Len(pages[1].image_data) = 8181
    /\ pages[1].image_data[1] # pages[1].image_data[2]
    /\ DataFrames = 2
    /\ Len(ChunkOf(1)) = 8180 /\ Len(ChunkOf(2)) = 1

EndsWithTrailer(d) ==
    Len(d) >= 4 /\ SubSeq(d, Len(d) - 3, Len(d)) = EndImageContent

\* C24: for every raster, the empty one included, the records emitted by
\* _build_ipd_records hold the end-image-content trailer in the final record
\* and in no earlier one.
EndTrailerOnce ==
    (pc = "parsed" /\ topology = "ipd") =>
        /\ Len(fields) >= 1
        /\ EndsWithTrailer(fields[Len(fields)].data)
        /\ \A i \in 1..(Len(fields) - 1) :
              Len(fields[i].data) \in {33, 3 + 8180, 7 + 8180}

(***************************************************************************)
(* Properties of the image objects of a built document, checked under      *)
(* SpecBuild.                                                              *)
(***************************************************************************)
\* The picture-data fields of the image object whose descriptor is field i:
\* the IPD fields between it and the next EIO.
PictureDataOf(i) ==
    LET eio == CHOOSE e \in Positions(ID_EIO) :
                   e > i /\ \A f \in Positions(ID_EIO) : f > i => e <= f
    IN  {j \in Positions(ID_IPD) : i < j /\ j < eio}

RECURSIVE SumDataLen(_)
SumDataLen(S) ==
    IF S = {} THEN 0
    ELSE LET j == CHOOSE k \in S : TRUE
         IN  Len(fields[j].data) + SumDataLen(S \ {j})

\* The raster bytes carried for descriptor i: the data of the records after
\* the header record, without flag bytes, markers and trailer.
RasterBytesOf(i) ==
    LET dataIpds == PictureDataOf(i) \ {Nth(PictureDataOf(i), 1)}
        m == Cardinality(dataIpds)
    IN  IF PictureDataOf(i) = {} \/ m = 0 THEN 0
        ELSE SumDataLen(dataIpds) - 3 * m - 4 * (m - 1) - 4

\* C25: in every image object emitted by either builder the raster bytes of
\* its picture-data records number ceil(W/8)*H, W and H being the width and
\* height written in the object's image data descriptor.
RasterSizeAgreement ==
    (pc = "parsed" /\ topology \in {"document", "resources"}) =>
        \A i \in Positions(ID_IDD) :
            LET d == fields[i].data
                W == UnpackH(SubSeq(d, 9, 10))
                H == UnpackH(SubSeq(d, 11, 12))
            IN  RasterBytesOf(i) = BytesFor(W) * H

(***************************************************************************)
(* Properties of the scan over framing errors, checked under SpecResync.   *)
(***************************************************************************)
\* The offset in the stream at which piece k starts.
RECURSIVE StartOfPiece(_)
StartOfPiece(k) ==
    IF k = 1 THEN 0
    ELSE StartOfPiece(k - 1) + Len(ResyncPieces[pieces[k - 1]])

\* C26: a framing error (missing control byte, length below 5, declared
\* length past the end of the buffer) never ends the validator's scan: every
\* well-formed frame that starts at a later control byte is parsed.
LocalResync ==
    (pc = "parsed") =>
        \A k \in DOMAIN pieces :
            (/\ pieces[k] \in WellFormedPieces
             /\ \E j \in 1..(k - 1) : pieces[j] \notin WellFormedPieces) =>
                \E i \in DOMAIN fields : fields[i].offset = StartOfPiece(k)

(***************************************************************************)
(* Properties of the scan loops, checked under SpecScan.                   *)
(***************************************************************************)
\* C27: on every finite buffer the scan loops of AFPValidator.parse,
\* clean_afp and clean_afp_advanced end: an iteration that does not leave
\* the loop strictly increases the offset, and every loop that was entered
\* reaches its exit.
ScanTermination ==
    /\ [][/\ (pc = "parse" /\ pc' = "parse") => parse_offset' > parse_offset
          /\ (pc = "clean" /\ pc' = "clean") => offset' > offset]_vars
    /\ (pc = "parse") ~> (pc = "parsed")
    /\ (pc = "clean" /\ variant = "clean_afp") ~> (pc = "cleaned")
    /\ (pc = "clean" /\ variant = "clean_afp_advanced") ~> (pc = "mark")

\* C27 witness: clean_afp ended its scan of a stream of a stray byte, a
\* well-formed frame and a frame declaring more bytes than are left, with
\* the offset behind the end of the buffer.
ScanTerminationWitness ==
    /\ pc = "cleaned" /\ variant = "clean_afp"
    /\ pieces = <<1, 4, 3>>
    /\ offset > Len(data)
    /\ Len(log) = 3

(***************************************************************************)
(* Properties of cleaning followed by validation, checked under            *)
(* SpecBalance.                                                            *)
(***************************************************************************)
DanglingMessages ==
    {"EPG without matching BPG", "EAG without matching BAG",
     "EPS without matching BPS", "EIO without matching BIO",
     "EOG without matching BOG"}

\* No dangling-end and no unclosed error among the findings.
NoNestingError(errs) ==
    \A i \in 1..Len(errs) : errs[i].msg \notin DanglingMessages \cup UnclosedMessages

\* C28: if the validator reports no dangling-end and no unclosed error for
\* a stream, it reports none for the cleaned stream: the cleaner removes a
\* begin field (D3 A8 5F, D3 A8 FB) only together with its end field.
CleaningKeepsNesting ==
    (pc = "validated" /\ pass = 2) =>
        (NoNestingError(first_errors) => NoNestingError(errors))

(***************************************************************************)
(* Properties of cleaning a built document, checked under SpecBuildClean.  *)
(***************************************************************************)
\* C29: clean_afp applied to the output of generate_afp_document or of
\* generate_afp_with_resources returns the same bytes and total_removed = 0.
CleaningBuiltIsIdentity ==
    (/\ pc = "cleaned"
     /\ variant = "clean_afp"
     /\ topology \in {"document", "resources"}) =>
        output = data /\ stats.total_removed = 0

(***************************************************************************)
(* Properties of the run status, checked under SpecRuns.                   *)
(***************************************************************************)
TerminalStatuses == {"SUCCEEDED", "FAILED", "CANCELED"}

\* C30: under any interleaving of run creation, queue delivery (a message
\* delivered more than once, a cancellation arriving while the worker
\* processes the run) and worker processing, a run whose status is
\* SUCCEEDED, FAILED or CANCELED never changes status again.
RunStatusFinal ==
    [][\A r \in Runs :
          run_status[r] \in TerminalStatuses => run_status'[r] = run_status[r]]_vars

====
